---- MODULE Spec2Model ----
(***************************************************************************)
(* Evaluation job pipeline of ai-cv-eval: job admission and dedup          *)
(* (EvalService.enqueue), the pipeline runner (EvalService._process_job),  *)
(* the SQLite repository, the in-process queue and the document store.     *)
(*                                                                         *)
(* Strings that the code inspects (job titles, extracted text) are         *)
(* sequences of one-character strings; every other text value is an opaque *)
(* string.  A nullable column or Optional value is NULL (the empty tuple)  *)
(* or Some(v) (the one-element tuple holding v).                           *)
(***************************************************************************)
EXTENDS Integers, Sequences, FiniteSets, TLC

VARIABLES
    storage,    \* which Storage implementation EvalService was constructed with
    files,      \* file ids present in the document store
    jobs,       \* table jobs: job id -> the rows with that id, in insertion order
    results,    \* table evaluation_results: job id -> the rows with that job_id
    tasks,      \* asyncio tasks created by InProcessQueue.submit, in creation order
    calls,      \* in-flight EvalService.enqueue coroutines, one per caller slot
    ret,        \* what the step just taken delivered to an enqueue caller, if anything
    retry,      \* the locals of one retry loop (async_retry / sync_retry), or NULL
    executor,   \* InProcessQueue._executor, the ThreadPoolExecutor of the queue
    aggregate,  \* one call of a score aggregator: its argument and what it gave, or NULL
    collection  \* the chunks of the Chroma collection "ground_truth"

vars ==
    <<storage, files, jobs, results, tasks, calls, ret, retry, executor, aggregate,
      collection>>

----------------------------------------------------------------------------
(* Bounds of the model *)

\* number of enqueue coroutines that may be in flight at the same time
MaxCallers == 2

\* number of enqueue coroutines in flight next to the status queries
MaxReaderCallers == 1

\* largest attempt budget a retry loop is called with
MaxAttempts == 4

\* how many times the repository of SpecRepository updates one job row
MaxUpdates == 2

NULL == <<>>
Some(v) == <<v>>
IsNull(x) == x = <<>>
\* the _UNSET sentinel of repository.update_job: the argument was not supplied
UNSET == <<"_UNSET">>

(* JobStatus, src/app/domain/models.py *)
queued == "queued"
processing == "processing"
completed == "completed"
failed == "failed"
JobStatus == {queued, processing, completed, failed}

UnknownJobMessage == "Unknown job id"
\* the id of the synchronous failure response; ids are tuples in this model
InvalidDocsId == <<"CV ID org Report ID not valid">>

\* messages of the exceptions a collaborator or the persistence layer may raise
ErrMsgs == {UnknownJobMessage, "boom"}

----------------------------------------------------------------------------
(* str.strip() on a string given as a sequence of characters *)

Whitespace == {" ", "\t", "\n"}

RECURSIVE LStrip(_)
LStrip(s) ==
    IF s = <<>> THEN s
    ELSE IF Head(s) \in Whitespace THEN LStrip(Tail(s)) ELSE s

RECURSIVE RStrip(_)
RStrip(s) ==
    IF s = <<>> THEN s
    ELSE IF s[Len(s)] \in Whitespace THEN RStrip(SubSeq(s, 1, Len(s) - 1)) ELSE s

Strip(s) == RStrip(LStrip(s))

----------------------------------------------------------------------------
(* Requests *)

\* job_title values a caller may send (EvaluateRequest.job_title, min_length 1)
Titles == { <<"a">>, <<" ", "a", " ">>, <<"b">> }

FileIds == {"cv1", "rp1"}

Payloads ==
    { [job_title |-> t, cv_id |-> "cv1", report_id |-> "rp1"] : t \in Titles }

\* The canonical payload that is digested.  sha256 truncated to 32 hex digits is
\* taken to be injective on the requests of the model, so the canonical payload
\* itself stands for the digest.
DeriveJobIdUntrimmed(payload) ==
    <<payload.job_title, payload.cv_id, payload.report_id>>

DeriveJobId(payload) ==
    <<Strip(payload.job_title), payload.cv_id, payload.report_id>>

JobIds == { DeriveJobId(p) : p \in Payloads }

\* the requests for one and the same evaluation: they differ in the whitespace
\* around the title only
PayloadsOneJob == { p \in Payloads : Strip(p.job_title) = <<"a">> }

----------------------------------------------------------------------------
(* Repository: the tables jobs and evaluation_results *)

FinalFields ==
    {"cv_match_rate", "cv_feedback", "project_score", "project_feedback",
     "overall_summary"}

RawFields ==
    {"raw_cv_json", "raw_project_json", "raw_resume_score_json",
     "raw_project_score_json"}

ResultFields == FinalFields \cup RawFields

\* the row INSERT INTO jobs writes; the two timestamps are the time of the
\* INSERT, and the time of a row is counted from there
NewJobRow(payload) ==
    [ job_title |-> payload.job_title,
      cv_file_id |-> payload.cv_id,
      report_file_id |-> payload.report_id,
      status |-> queued,
      stage |-> NULL,
      error_message |-> NULL,
      created_at |-> 0,
      updated_at |-> 0 ]

\* jobs.id is the primary key: a second INSERT of the same id raises IntegrityError
CreateJobViolatesNoPk(J, job_id) == FALSE

CreateJobViolates(J, job_id) == Len(J[job_id]) > 0

CreateJob(J, job_id, payload) ==
    [J EXCEPT ![job_id] = Append(@, NewJobRow(payload))]

\* an UPDATE that writes every column: what is not supplied is reset
PatchJobRowOverwrites(row, status, stage, error_message) ==
    [row EXCEPT
        !.updated_at = @ + 1,
        !.status = IF IsNull(status) THEN queued ELSE status[1],
        !.stage = IF stage = UNSET THEN NULL ELSE stage,
        !.error_message = IF error_message = UNSET THEN NULL ELSE error_message]

\* UPDATE jobs SET ... WHERE id = :job_id; status None and stage / error_message
\* _UNSET are left out of the SET list, updated_at = datetime.now() is always in
\* it: the clock has moved on since the row was last written
PatchJobRow(row, status, stage, error_message) ==
    [row EXCEPT
        !.updated_at = @ + 1,
        !.status = IF IsNull(status) THEN @ ELSE status[1],
        !.stage = IF stage = UNSET THEN @ ELSE stage,
        !.error_message = IF error_message = UNSET THEN @ ELSE error_message]

\* an UPDATE statement without its WHERE clause: every row of the table is patched
UpdateJobAllRows(J, job_id, status, stage, error_message) ==
    [k \in DOMAIN J |->
        [i \in DOMAIN J[k] |-> PatchJobRow(J[k][i], status, stage, error_message)]]

UpdateJob(J, job_id, status, stage, error_message) ==
    [J EXCEPT ![job_id] =
        [i \in DOMAIN J[job_id] |->
            PatchJobRow(J[job_id][i], status, stage, error_message)]]

\* the row INSERT INTO evaluation_results (job_id) writes: every column NULL
NewResultRow == [f \in ResultFields |-> NULL]

\* evaluation_results.job_id is the primary key
CreateEvalResultViolates(R, job_id) == Len(R[job_id]) > 0

CreateEvalResult(R, job_id) == [R EXCEPT ![job_id] = Append(@, NewResultRow)]

\* UPDATE evaluation_results SET <assignments> WHERE job_id = :job_id; patch maps
\* the assigned columns to their new values
PatchResultRow(row, patch) ==
    [f \in ResultFields |-> IF f \in DOMAIN patch THEN patch[f] ELSE row[f]]

UpdateEvalResult(R, job_id, patch) ==
    [R EXCEPT ![job_id] =
        [i \in DOMAIN R[job_id] |-> PatchResultRow(R[job_id][i], patch)]]

\* a payload built whatever the final fields hold
RowToPayloadAlways(row) == Some([f \in FinalFields |-> row[f]])

\* _row_to_payload: None when all five final fields are NULL
RowToPayload(row) ==
    IF \A f \in FinalFields : IsNull(row[f])
    THEN NULL
    ELSE Some([f \in FinalFields |-> row[f]])

\* jobs AS j LEFT JOIN evaluation_results AS r ON r.job_id = j.id WHERE j.id = :job_id
JoinedRows(J, R, job_id) ==
    IF Len(R[job_id]) = 0
    THEN [i \in DOMAIN J[job_id] |->
            [job |-> J[job_id][i], result |-> NewResultRow]]
    ELSE [k \in 1..(Len(J[job_id]) * Len(R[job_id])) |->
            [job |-> J[job_id][((k - 1) \div Len(R[job_id])) + 1],
             result |-> R[job_id][((k - 1) % Len(R[job_id])) + 1]]]

\* a zeroed record in place of the sentinel view
UnknownJobViewZeroed(job_id) ==
    [ id |-> job_id, status |-> queued, stage |-> NULL, result |-> NULL,
      error_message |-> NULL, exc |-> NULL ]

UnknownJobView(job_id) ==
    [ id |-> job_id, status |-> failed, stage |-> NULL, result |-> NULL,
      error_message |-> Some(UnknownJobMessage), exc |-> NULL ]

\* Repository.get_status: the view of a job, the sentinel view when no row exists;
\* one_or_none() raises MultipleResultsFound on more than one joined row
GetStatus(J, R, job_id) ==
    LET rows == JoinedRows(J, R, job_id) IN
    IF Len(rows) = 0 THEN UnknownJobView(job_id)
    ELSE IF Len(rows) > 1
    THEN [UnknownJobView(job_id) EXCEPT
            !.error_message = NULL, !.exc = Some("MultipleResultsFound")]
    ELSE [ id |-> job_id,
           status |-> rows[1].job.status,
           stage |-> rows[1].job.stage,
           result |-> RowToPayload(rows[1].result),
           error_message |-> rows[1].job.error_message,
           exc |-> NULL ]

\* EvalService._is_unknown_job
IsUnknownJob(view) ==
    view.status = failed /\ view.error_message = Some(UnknownJobMessage)

----------------------------------------------------------------------------
(* Document store *)

\* LocalStorage is the class of src/app/adapters/storage.py (the default of
\* EvalService.__init__); StorageWithExists is an injected Storage that also
\* offers exists(ref) -> bool
StorageKinds == {"LocalStorage", "StorageWithExists"}

\* LocalStorage.save_upload: the file is written under its content digest
SaveUploadFile(F, file_id) == F \cup {file_id}

\* LocalStorage (and the Storage protocol) define no method exists: the
\* attribute lookup self._storage.exists raises AttributeError
LocalStorageExists(F, file_id) ==
    [exc |-> Some("AttributeError"), value |-> FALSE]

\* exists(ref) -> bool of a document store that offers it
InjectedStorageExists(F, file_id) == [exc |-> NULL, value |-> file_id \in F]

\* await self._storage.exists(file_id) on the storage the service was built with
StorageExists(kind, F, file_id) ==
    IF kind = "LocalStorage"
    THEN LocalStorageExists(F, file_id)
    ELSE InjectedStorageExists(F, file_id)

\* LocalStorage.open: FileNotFoundError(file_id) when no file matches the id
StorageOpenRaises(F, file_id) == file_id \notin F

----------------------------------------------------------------------------
(* InProcessQueue *)

\* the coroutine _process_job(job_id, payload) before its first step
NewTask(job_id, payload) ==
    [ job_id |-> job_id,
      payload |-> payload,
      pc |-> "update_job_processing",
      exc |-> NULL,
      raised_at |-> NULL,
      exc_info |-> NULL,
      scored_resume |-> NULL,
      scored_project_report |-> NULL,
      overall_summary |-> NULL ]

\* InProcessQueue.__init__(max_workers=4)
DefaultMaxWorkers == 4

\* ThreadPoolExecutor(max_workers=max_workers): no thread is started before work
\* is handed to the executor; threads counts its busy threads
NewExecutor(max_workers) == [max_workers |-> max_workers, threads |-> 0]

\* a submit that creates no task
SubmitDropsTask(Q, job_id, payload) == Q

\* InProcessQueue.submit: loop.create_task(runner())
Submit(Q, job_id, payload) == Append(Q, NewTask(job_id, payload))

----------------------------------------------------------------------------
(* Backoff Retrier, src/app/util/retry.py: async_retry and sync_retry run the
   same loop.  Delays are whole numbers of a time unit. *)

Min(a, b) == IF a <= b THEN a ELSE b

\* the subclasses of google.genai errors.APIError: ServerError is a 5xx response
\* (unavailable, internal, overloaded), ClientError a 4xx response (400 invalid
\* argument, 401 and 403 bad or unauthorised API key, 429 quota)
ApiErrorClasses == {"ServerError", "ClientError"}

\* classes of the exceptions an operation may raise: an errors.APIError or any
\* other Exception
ExcClasses == ApiErrorClasses \cup {"Exception"}

\* is_retryable_gemini_error: isinstance(exc, errors.APIError)
IsRetryableGeminiError(exc) == exc \in ApiErrorClasses

\* _should_retry_default: with retry_exceptions None every exception is retried
ShouldRetryDefault(exc, retry_exceptions) ==
    IF IsNull(retry_exceptions) THEN TRUE ELSE exc \in retry_exceptions[1]

\* a backoff that grows by base_delay per attempt instead of doubling
ComputeSleepLinear(attempt, base_delay, max_delay, jitter, u) ==
    LET backoff == Min(max_delay, base_delay * attempt) IN
    IF jitter <= 0 THEN backoff ELSE backoff + u

\* _compute_sleep; u is the draw of random.uniform(0, jitter)
ComputeSleep(attempt, base_delay, max_delay, jitter, u) ==
    LET backoff == Min(max_delay, base_delay * (2 ^ (attempt - 1))) IN
    IF jitter <= 0 THEN backoff ELSE backoff + u

\* the locals of the loop on entry; attempts < 1 raises ValueError at once.
\* should_retry is NULL or Some(predicate), the predicate a function on ExcClasses.
\* invocations logs what each call of operation() did, in order; an exception
\* object is its class and the invocation that raised it (0: raised by the
\* retrier itself); last_exc is the local of that name
RetryCall(attempts, base_delay, max_delay, jitter, retry_exceptions, should_retry) ==
    [ attempts |-> attempts, base_delay |-> base_delay, max_delay |-> max_delay,
      jitter |-> jitter, retry_exceptions |-> retry_exceptions,
      should_retry |-> should_retry,
      attempt |-> 1,
      sleeps |-> <<>>,
      invocations |-> <<>>,
      last_exc |-> NULL,
      outcome |-> IF attempts < 1
                  THEN Some([kind |-> "raise", exc |-> "ValueError", invocation |-> 0])
                  ELSE NULL ]

\* retry_allowed = should_retry(exc) if should_retry else _should_retry_default(...)
RetryAllowed(r, exc) ==
    IF ~IsNull(r.should_retry)
    THEN r.should_retry[1][exc]
    ELSE ShouldRetryDefault(exc, r.retry_exceptions)

\* a loop that asks no predicate and retries every error until the budget is spent
RetryIterationIgnoresPredicate(r, result, u) ==
    LET exc == [class |-> result, invocation |-> r.attempt] IN
    IF result = "ok"
    THEN [r EXCEPT !.invocations = Append(@, result),
                   !.outcome = Some([kind |-> "return", exc |-> "none",
                                     invocation |-> r.attempt])]
    ELSE IF r.attempt = r.attempts
    THEN [r EXCEPT !.invocations = Append(@, result),
                   !.last_exc = Some(exc),
                   !.outcome = Some([kind |-> "raise", exc |-> exc.class,
                                     invocation |-> exc.invocation])]
    ELSE [r EXCEPT
            !.invocations = Append(@, result),
            !.sleeps = Append(@, ComputeSleep(r.attempt, r.base_delay, r.max_delay,
                                              r.jitter, u)),
            !.attempt = @ + 1]

\* a loop that remembers the first error it saw and raises that one on giving up
RetryIterationRaisesFirst(r, result, u) ==
    LET exc == IF r.invocations = <<>>
               THEN [class |-> result, invocation |-> r.attempt]
               ELSE [class |-> r.invocations[1], invocation |-> 1] IN
    IF result = "ok"
    THEN [r EXCEPT !.invocations = Append(@, result),
                   !.outcome = Some([kind |-> "return", exc |-> "none",
                                     invocation |-> r.attempt])]
    ELSE IF ~RetryAllowed(r, result) \/ r.attempt = r.attempts
    THEN [r EXCEPT !.invocations = Append(@, result),
                   !.last_exc = Some(exc),
                   !.outcome = Some([kind |-> "raise", exc |-> exc.class,
                                     invocation |-> exc.invocation])]
    ELSE [r EXCEPT
            !.invocations = Append(@, result),
            !.sleeps = Append(@, ComputeSleep(r.attempt, r.base_delay, r.max_delay,
                                              r.jitter, u)),
            !.attempt = @ + 1]

\* one iteration of the loop: the operation returns ("ok") or raises an exception
\* of class result; u is the jitter draw of this iteration
RetryIteration(r, result, u) ==
    LET exc == [class |-> result, invocation |-> r.attempt] IN
    IF result = "ok"
    THEN [r EXCEPT !.invocations = Append(@, result),
                   !.outcome = Some([kind |-> "return", exc |-> "none",
                                     invocation |-> r.attempt])]
    ELSE IF ~RetryAllowed(r, result) \/ r.attempt = r.attempts
    THEN [r EXCEPT !.invocations = Append(@, result),
                   !.last_exc = Some(exc),
                   !.outcome = Some([kind |-> "raise", exc |-> exc.class,
                                     invocation |-> exc.invocation])]
    ELSE [r EXCEPT
            !.invocations = Append(@, result),
            !.sleeps = Append(@, ComputeSleep(r.attempt, r.base_delay, r.max_delay,
                                              r.jitter, u)),
            !.attempt = @ + 1]

\* the whole loop, given what the operation does on each attempt
RECURSIVE RunRetry(_, _)
RunRetry(r, attempt_results) ==
    IF ~IsNull(r.outcome) THEN r
    ELSE RunRetry(RetryIteration(r, attempt_results[r.attempt], 0), attempt_results)

----------------------------------------------------------------------------
(* EvalService.enqueue, one action per await *)

Callers == 1..MaxCallers

IdleCall == [pc |-> "idle"]

NoRet == [kind |-> "none"]

\* enqueue returns EvaluateResponse(id, status) to caller c
Response(c, id, status) ==
    [ kind |-> "response", caller |-> c, payload |-> calls[c].payload,
      id |-> id, status |-> status ]

\* enqueue raises exception exc to caller c
Raised(c, exc) ==
    [kind |-> "raise", caller |-> c, payload |-> calls[c].payload, exc |-> exc]

\* caller c leaves enqueue with outcome r
Leave(c, r) ==
    /\ calls' = [calls EXCEPT ![c] = IdleCall]
    /\ ret' = r

\* caller c moves on to the await named pc
Goto(c, pc) ==
    /\ calls' = [calls EXCEPT ![c].pc = pc]
    /\ ret' = NoRet

\* a request arrives: job_id = self._derive_job_id(payload)
EnqStart(c, payload) ==
    /\ calls[c].pc = "idle"
    /\ \A d \in Callers : d < c => calls[d].pc # "idle"
    /\ calls' = [calls EXCEPT ![c] =
            [ pc |-> "get_status", payload |-> payload,
              job_id |-> DeriveJobId(payload), is_cv_exist |-> FALSE ]]
    /\ ret' = NoRet
    /\ UNCHANGED <<aggregate, collection, executor, retry, storage, files, jobs, results, tasks>>

\* existing = await self._repository.get_status(job_id); return it when known
EnqGetStatus(c) ==
    /\ calls[c].pc = "get_status"
    /\ LET existing == GetStatus(jobs, results, calls[c].job_id) IN
        IF ~IsNull(existing.exc) THEN Leave(c, Raised(c, existing.exc[1]))
        ELSE IF ~IsUnknownJob(existing)
        THEN Leave(c, Response(c, calls[c].job_id, existing.status))
        ELSE Goto(c, "exists_cv")
    /\ UNCHANGED <<aggregate, collection, executor, retry, storage, files, jobs, results, tasks>>

\* is_cv_exist = await self._storage.exists(payload.cv_id)
EnqExistsCv(c) ==
    /\ calls[c].pc = "exists_cv"
    /\ LET r == StorageExists(storage, files, calls[c].payload.cv_id) IN
        IF ~IsNull(r.exc) THEN Leave(c, Raised(c, r.exc[1]))
        ELSE /\ calls' = [calls EXCEPT ![c].pc = "exists_report",
                                        ![c].is_cv_exist = r.value]
             /\ ret' = NoRet
    /\ UNCHANGED <<aggregate, collection, executor, retry, storage, files, jobs, results, tasks>>

\* is_report_exist = await self._storage.exists(payload.report_id), then the
\* synchronous failure response when either document is missing
EnqExistsReport(c) ==
    /\ calls[c].pc = "exists_report"
    /\ LET r == StorageExists(storage, files, calls[c].payload.report_id) IN
        IF ~IsNull(r.exc) THEN Leave(c, Raised(c, r.exc[1]))
        ELSE IF ~calls[c].is_cv_exist \/ ~r.value
        THEN Leave(c, Response(c, InvalidDocsId, failed))
        ELSE Goto(c, "create_job")
    /\ UNCHANGED <<aggregate, collection, executor, retry, storage, files, jobs, results, tasks>>

\* await self._repository.create_job(job_id, payload), or its IntegrityError
EnqCreateJob(c) ==
    /\ calls[c].pc = "create_job"
    /\ IF CreateJobViolates(jobs, calls[c].job_id)
       THEN /\ Goto(c, "integrity_get_status")
            /\ UNCHANGED jobs
       ELSE /\ jobs' = CreateJob(jobs, calls[c].job_id, calls[c].payload)
            /\ Goto(c, "submit")
    /\ UNCHANGED <<aggregate, collection, executor, retry, storage, files, results, tasks>>

\* except IntegrityError: look the job up again; re-raise when still unknown
EnqIntegrityGetStatus(c) ==
    /\ calls[c].pc = "integrity_get_status"
    /\ LET existing == GetStatus(jobs, results, calls[c].job_id) IN
        IF ~IsNull(existing.exc) THEN Leave(c, Raised(c, existing.exc[1]))
        ELSE IF IsUnknownJob(existing)
        THEN Leave(c, Raised(c, "IntegrityError"))
        ELSE Leave(c, Response(c, calls[c].job_id, existing.status))
    /\ UNCHANGED <<aggregate, collection, executor, retry, storage, files, jobs, results, tasks>>

\* self._queue.submit(partial(self._process_job, job_id, payload)); return queued
EnqSubmit(c) ==
    /\ calls[c].pc = "submit"
    /\ tasks' = Submit(tasks, calls[c].job_id, calls[c].payload)
    /\ Leave(c, Response(c, calls[c].job_id, queued))
    /\ UNCHANGED <<aggregate, collection, executor, retry, storage, files, jobs, results>>

\* UploadService.store / LocalStorage.save_upload puts a document in the store
Upload(file_id) ==
    /\ file_id \notin files
    /\ files' = SaveUploadFile(files, file_id)
    /\ ret' = NoRet
    /\ UNCHANGED <<aggregate, collection, executor, retry, storage, jobs, results, tasks, calls>>

----------------------------------------------------------------------------
(* Score Aggregator.  A raw score or weight is NULL (missing, or not coercible
   to a number) or Some(n), n the number in hundredths. *)

\* a raw value that is an int beyond the range of a float, such as the JSON
\* integer 10 ** 400 (a pair, to be told from NULL and Some(n))
HugeInt == <<"int", "10 ** 400">>

\* EvalService._safe_number: float(value), 0.0 on TypeError / ValueError
SafeNumber(value) == IF IsNull(value) THEN 0 ELSE value[1]

\* float(value) raises OverflowError for an int beyond the range of a float, and
\* _safe_number catches TypeError and ValueError only
SafeNumberRaises(value) == value = HugeInt

\* a conversion that knows fractions only and drops a weight above 1
WeightFractionDropsPercent(weight) == IF weight > 100 THEN 0 ELSE weight * 100

\* weight / 100.0 if weight > 1 else weight, in ten-thousandths
WeightFraction(weight) == IF weight > 100 THEN weight ELSE weight * 100

\* round(n / d, 2) for d > 0, in hundredths when n / d is; ties go to the even digit
RoundHalfEven(n, d) ==
    LET q == n \div d
        r == n - q * d
    IN  IF 2 * r < d THEN q
        ELSE IF 2 * r > d THEN q + 1
        ELSE IF q % 2 = 0 THEN q ELSE q + 1

\* the score keys; the weight of a component is looked up under its weight key
CvComponents ==
    << "technical_skills_match", "experience_level", "relevant_achievements",
       "cultural_collaboration_fit" >>

ProjectComponents ==
    << "correctness", "code_quality_structure", "resilience_error_handling",
       "documentation_explanation", "creativity_bonus" >>

\* the loop over components: <<weighted_sum, total_weight>> of the first k of them
RECURSIVE WeightedSums(_, _, _)
WeightedSums(scored, components, k) ==
    IF k = 0 THEN <<0, 0>>
    ELSE LET rest == WeightedSums(scored, components, k - 1)
             score == SafeNumber(scored.scores[components[k]])
             fraction == WeightFraction(SafeNumber(scored.weights[components[k]]))
         IN  IF fraction <= 0 THEN rest
             ELSE <<rest[1] + score * fraction, rest[2] + fraction>>

\* round(weighted_sum / total_weight, 2), in hundredths; 0.0 without any weight
RoundedRatio(scored, components) ==
    LET sums == WeightedSums(scored, components, Len(components)) IN
    IF sums[2] <= 0 THEN 0 ELSE RoundHalfEven(sums[1], sums[2])

\* the loop passes the score and the weight of every component to _safe_number
AggregatorRaises(scored, components) ==
    \E k \in 1..Len(components) :
        \/ SafeNumberRaises(scored.scores[components[k]])
        \/ SafeNumberRaises(scored.weights[components[k]])

\* EvalService._calculate_cv_match_rate, in thousandths: the rounded ratio * 0.2
CalculateCvMatchRate(scored_resume) == 2 * RoundedRatio(scored_resume, CvComponents)

\* EvalService._calculate_project_score, in thousandths: the rounded ratio
CalculateProjectScore(scored_project_report) ==
    10 * RoundedRatio(scored_project_report, ProjectComponents)

----------------------------------------------------------------------------
(* Collaborators of the pipeline: what they may return *)

\* text the PDF extractor may produce for a stored document
Texts == { <<" ">>, <<"t">> }

\* CV_MATCH_EVALUATION_SCHEMA: integer scores, no weight keys, a number
\* cv_match_rate and a nullable string cv_feedback
ScoreResumeOutputs ==
    { [ scores |-> [d \in {"technical_skills_match", "experience_level",
                            "relevant_achievements",
                            "cultural_collaboration_fit"} |-> Some(400)],
        weights |-> [d \in {"technical_skills_match", "experience_level",
                             "relevant_achievements",
                             "cultural_collaboration_fit"} |-> NULL],
        cv_match_rate |-> Some(700),
        cv_feedback |-> fb ] : fb \in {NULL, Some("cv_feedback")} }

\* PROJECT_DELIVERABLE_EVALUATION_SCHEMA, likewise
ScoreProjectOutputs ==
    { [ scores |-> [d \in {"correctness", "code_quality_structure",
                            "resilience_error_handling",
                            "documentation_explanation",
                            "creativity_bonus"} |-> Some(300)],
        weights |-> [d \in {"correctness", "code_quality_structure",
                             "resilience_error_handling",
                             "documentation_explanation",
                             "creativity_bonus"} |-> NULL],
        project_score |-> Some(3500),
        project_feedback |-> fb ] : fb \in {NULL, Some("project_feedback")} }

\* the summarizer returns the overall summary text
OverallSummaries == { "overall_summary" }

----------------------------------------------------------------------------
(* EvalService._process_job, one action per await.  Every awaited call may
   raise; the exception is caught by the handler at the end of _process_job. *)

TaskIds == DOMAIN tasks

\* task t continues at the await named pc
TaskGoto(t, pc) == tasks' = [tasks EXCEPT ![t].pc = pc]

\* task t leaves the except clause for pc: the caught exception is dropped
TaskLeaveHandler(t, pc) ==
    tasks' = [tasks EXCEPT ![t].pc = pc, ![t].exc = NULL, ![t].raised_at = NULL,
                           ![t].exc_info = NULL]

\* an awaited call of task t raises an exception of class cls whose str() is msg,
\* after the call was attempted attempts times; raised_at is the traceback of
\* the exception, the await at which it was raised
TaskRaiseWith(t, msg, cls, attempts) ==
    tasks' = [tasks EXCEPT ![t].pc = "except", ![t].exc = Some(msg),
                           ![t].raised_at = Some(tasks[t].pc),
                           ![t].exc_info =
                                Some([class |-> cls, attempts |-> attempts])]

\* a call made once, outside any retry loop, raises a plain Exception
TaskRaise(t, msg) == TaskRaiseWith(t, msg, "Exception", 1)

\* a repository call of task t raises
PersistenceRaises(t) ==
    /\ \E msg \in ErrMsgs : TaskRaise(t, msg)
    /\ UNCHANGED <<aggregate, collection, executor, retry, storage, files, jobs, results, calls>>

\* a collaborator call of task t raises: _process_job and the LLM provider call
\* the collaborator once, outside any retry loop
CollaboratorRaises(t) ==
    /\ \E msg \in ErrMsgs : \E cls \in ExcClasses : TaskRaiseWith(t, msg, cls, 1)
    /\ UNCHANGED <<aggregate, collection, executor, retry, storage, files, jobs, results, calls>>

\* GeminiEmbeddingFunction.__init__: the arguments its __call__ gives sync_retry,
\* delays in tenths of a second
EmbeddingRetryAttempts == 4
EmbeddingRetryBaseDelay == 6
EmbeddingRetryMaxDelay == 60
EmbeddingRetryJitter == 4

EmbeddingRetryCall ==
    RetryCall(EmbeddingRetryAttempts, EmbeddingRetryBaseDelay,
              EmbeddingRetryMaxDelay, EmbeddingRetryJitter, NULL,
              Some([exc \in ExcClasses |-> IsRetryableGeminiError(exc)]))

\* what one run of the embedding retry loop may end with: it returns, or raises
\* an exception of class exc on its attempt-th attempt
EmbeddingRetryRuns ==
    { LET r == RunRetry(EmbeddingRetryCall, attempt_results) IN
        IF r.outcome[1].kind = "return"
        THEN [kind |-> "return", exc |-> "none", attempt |-> 0]
        ELSE [kind |-> "raise", exc |-> r.outcome[1].exc, attempt |-> r.attempt] :
      attempt_results \in [1..EmbeddingRetryAttempts -> {"ok"} \cup ExcClasses] }

\* ChromaDBVectorStore.query: the collection embeds the query text through
\* GeminiEmbeddingFunction.__call__, whose embed_content call runs under
\* sync_retry, and then searches; the whole call is one synchronous step
VectorStoreQuery(t, pc) ==
    /\ \/ \E r \in EmbeddingRetryRuns :
            IF r.kind = "return"
            THEN TaskGoto(t, pc)
            ELSE \E msg \in ErrMsgs : TaskRaiseWith(t, msg, r.exc, r.attempt)
       \/ \E msg \in ErrMsgs : TaskRaise(t, msg)
    /\ UNCHANGED <<aggregate, collection, executor, retry, storage, files, jobs, results, calls>>

\* update_job(job_id, ...) of task t, then on to pc
TaskUpdateJob(t, status, stage, error_message, pc) ==
    /\ jobs' = UpdateJob(jobs, tasks[t].job_id, status, stage, error_message)
    /\ TaskGoto(t, pc)
    /\ UNCHANGED <<aggregate, collection, executor, retry, storage, files, results, calls>>

\* update_eval_result(job_id, assignments, params) of task t, then on to pc
TaskUpdateEvalResult(t, patch, pc) ==
    /\ results' = UpdateEvalResult(results, tasks[t].job_id, patch)
    /\ TaskGoto(t, pc)
    /\ UNCHANGED <<aggregate, collection, executor, retry, storage, files, jobs, calls>>

\* a collaborator call of task t that returns, leaving the tables alone
TaskCollaboratorReturns(t, pc) ==
    /\ TaskGoto(t, pc)
    /\ UNCHANGED <<aggregate, collection, executor, retry, storage, files, jobs, results, calls>>

\* self._extract_pdf_text(file_id) and the emptiness check that follows it
TaskExtract(t, file_id, empty_message, pc) ==
    /\ IF StorageOpenRaises(files, file_id)
       THEN TaskRaise(t, file_id)
       ELSE \E text \in Texts :
                IF Strip(text) = <<>>
                THEN TaskRaise(t, empty_message)
                ELSE TaskGoto(t, pc)
    /\ UNCHANGED <<aggregate, collection, executor, retry, storage, files, jobs, results, calls>>

\* update_job(status=processing, stage="cv_ingest", error_message=None)
RunUpdateJobProcessing(t) ==
    /\ tasks[t].pc = "update_job_processing"
    /\ ret' = NoRet
    /\ \/ TaskUpdateJob(t, Some(processing), Some("cv_ingest"), NULL,
                         "create_eval_result")
       \/ PersistenceRaises(t)

\* await self._repository.create_eval_result(job_id)
RunCreateEvalResult(t) ==
    /\ tasks[t].pc = "create_eval_result"
    /\ ret' = NoRet
    /\ \/ /\ IF CreateEvalResultViolates(results, tasks[t].job_id)
             THEN TaskRaise(t, "IntegrityError") /\ UNCHANGED results
             ELSE /\ results' = CreateEvalResult(results, tasks[t].job_id)
                  /\ TaskGoto(t, "extract_cv")
          /\ UNCHANGED <<aggregate, collection, executor, retry, storage, files, jobs, calls>>
       \/ PersistenceRaises(t)

\* _process_cv: cv_text = await self._extract_pdf_text(payload.cv_id)
RunExtractCv(t) ==
    /\ tasks[t].pc = "extract_cv"
    /\ ret' = NoRet
    /\ \/ TaskExtract(t, tasks[t].payload.cv_id,
                       "Unable to extract text from CV PDF.", "stage_cv_extract")
       \/ CollaboratorRaises(t)

\* update_job(job_id, stage="cv_extract")
RunStageCvExtract(t) ==
    /\ tasks[t].pc = "stage_cv_extract"
    /\ ret' = NoRet
    /\ \/ TaskUpdateJob(t, NULL, Some("cv_extract"), UNSET, "parse_resume")
       \/ PersistenceRaises(t)

\* structured_cv = await self._llm_provider.parse_resume(resume_text=cv_text)
RunParseResume(t) ==
    /\ tasks[t].pc = "parse_resume"
    /\ ret' = NoRet
    /\ \/ TaskCollaboratorReturns(t, "persist_cv_snapshot")
       \/ CollaboratorRaises(t)

\* _persist_cv_snapshot: raw_cv_json = json.dumps(structured_cv)
RunPersistCvSnapshot(t) ==
    /\ tasks[t].pc = "persist_cv_snapshot"
    /\ ret' = NoRet
    /\ \/ TaskUpdateEvalResult(t, [raw_cv_json |-> Some("structured_cv")],
                                "stage_cv_scoring")
       \/ PersistenceRaises(t)

\* update_job(job_id, stage="cv_scoring")
RunStageCvScoring(t) ==
    /\ tasks[t].pc = "stage_cv_scoring"
    /\ ret' = NoRet
    /\ \/ TaskUpdateJob(t, NULL, Some("cv_scoring"), UNSET, "query_cv_rubric")
       \/ PersistenceRaises(t)

\* self._vector_store.query("Scoring rubric for CV Match Evaluation", top_k=2)
RunQueryCvRubric(t) ==
    /\ tasks[t].pc = "query_cv_rubric"
    /\ ret' = NoRet
    /\ VectorStoreQuery(t, "query_job_description")

\* self._vector_store.query(f"Job description for role: {job_title}", top_k=2)
RunQueryJobDescription(t) ==
    /\ tasks[t].pc = "query_job_description"
    /\ ret' = NoRet
    /\ VectorStoreQuery(t, "score_resume")

\* a CV branch that keeps the cv_match_rate the scorer returned
RunScoreResumeKeepsScorerRate(t) ==
    /\ tasks[t].pc = "score_resume"
    /\ ret' = NoRet
    /\ \/ /\ \E out \in ScoreResumeOutputs :
                tasks' = [tasks EXCEPT ![t].pc = "persist_resume_score",
                                       ![t].scored_resume = Some(out)]
          /\ UNCHANGED <<aggregate, collection, executor, retry, storage, files, jobs, results, calls>>
       \/ CollaboratorRaises(t)

\* scored_resume = await self._llm_provider.score_resume(...), then
\* scored_resume["cv_match_rate"] = self._calculate_cv_match_rate(scored_resume)
RunScoreResume(t) ==
    /\ tasks[t].pc = "score_resume"
    /\ ret' = NoRet
    /\ \/ /\ \E out \in ScoreResumeOutputs :
                tasks' = [tasks EXCEPT
                    ![t].pc = "persist_resume_score",
                    ![t].scored_resume =
                        Some([out EXCEPT
                            !.cv_match_rate = Some(CalculateCvMatchRate(out))])]
          /\ UNCHANGED <<aggregate, collection, executor, retry, storage, files, jobs, results, calls>>
       \/ CollaboratorRaises(t)

\* _persist_resume_score_snapshot: raw_resume_score_json = json.dumps(scored_resume)
RunPersistResumeScore(t) ==
    /\ tasks[t].pc = "persist_resume_score"
    /\ ret' = NoRet
    /\ \/ TaskUpdateEvalResult(t,
              [raw_resume_score_json |-> tasks[t].scored_resume], "extract_report")
       \/ PersistenceRaises(t)

\* _process_project_report: report_text = await self._extract_pdf_text(report_id)
RunExtractReport(t) ==
    /\ tasks[t].pc = "extract_report"
    /\ ret' = NoRet
    /\ \/ TaskExtract(t, tasks[t].payload.report_id,
                       "Unable to extract text from Report Project PDF.",
                       "stage_report_extract")
       \/ CollaboratorRaises(t)

\* the stage update of the report branch written with the CV branch's label
RunStageReportExtractAsCvExtract(t) ==
    /\ tasks[t].pc = "stage_report_extract"
    /\ ret' = NoRet
    /\ \/ TaskUpdateJob(t, NULL, Some("cv_extract"), UNSET,
                         "parse_project_report")
       \/ PersistenceRaises(t)

\* update_job(job_id, stage="report_extract")
RunStageReportExtract(t) ==
    /\ tasks[t].pc = "stage_report_extract"
    /\ ret' = NoRet
    /\ \/ TaskUpdateJob(t, NULL, Some("report_extract"), UNSET,
                         "parse_project_report")
       \/ PersistenceRaises(t)

\* structured_report = await self._llm_provider.parse_project_report(...)
RunParseProjectReport(t) ==
    /\ tasks[t].pc = "parse_project_report"
    /\ ret' = NoRet
    /\ \/ TaskCollaboratorReturns(t, "persist_project_snapshot")
       \/ CollaboratorRaises(t)

\* _persist_project_report_snapshot: raw_project_json = json.dumps(structured_report)
RunPersistProjectSnapshot(t) ==
    /\ tasks[t].pc = "persist_project_snapshot"
    /\ ret' = NoRet
    /\ \/ TaskUpdateEvalResult(t, [raw_project_json |-> Some("structured_report")],
                                "stage_report_scoring")
       \/ PersistenceRaises(t)

\* update_job(job_id, stage="report_scoring")
RunStageReportScoring(t) ==
    /\ tasks[t].pc = "stage_report_scoring"
    /\ ret' = NoRet
    /\ \/ TaskUpdateJob(t, NULL, Some("report_scoring"), UNSET,
                         "query_project_rubric")
       \/ PersistenceRaises(t)

\* self._vector_store.query("Scoring rubric for Project Deliverable Evaluation", 2)
RunQueryProjectRubric(t) ==
    /\ tasks[t].pc = "query_project_rubric"
    /\ ret' = NoRet
    /\ VectorStoreQuery(t, "query_case_study")

\* self._vector_store.query(f"Case study brief for role: {job_title}", top_k=2)
RunQueryCaseStudy(t) ==
    /\ tasks[t].pc = "query_case_study"
    /\ ret' = NoRet
    /\ VectorStoreQuery(t, "score_project_report")

\* scored_project_report = await self._llm_provider.score_project_report(...),
\* then scored_project_report["project_score"] = self._calculate_project_score(...)
RunScoreProjectReport(t) ==
    /\ tasks[t].pc = "score_project_report"
    /\ ret' = NoRet
    /\ \/ /\ \E out \in ScoreProjectOutputs :
                tasks' = [tasks EXCEPT
                    ![t].pc = "persist_report_score",
                    ![t].scored_project_report =
                        Some([out EXCEPT
                            !.project_score = Some(CalculateProjectScore(out))])]
          /\ UNCHANGED <<aggregate, collection, executor, retry, storage, files, jobs, results, calls>>
       \/ CollaboratorRaises(t)

\* _persist_report_score_snapshot: raw_project_score_json = json.dumps(...)
RunPersistReportScore(t) ==
    /\ tasks[t].pc = "persist_report_score"
    /\ ret' = NoRet
    /\ \/ TaskUpdateEvalResult(t,
              [raw_project_score_json |-> tasks[t].scored_project_report],
              "overall_summary")
       \/ PersistenceRaises(t)

\* overall_summary = await self._llm_provider.get_candidate_overall_summary(...)
RunOverallSummary(t) ==
    /\ tasks[t].pc = "overall_summary"
    /\ ret' = NoRet
    /\ \/ /\ \E text \in OverallSummaries :
                tasks' = [tasks EXCEPT ![t].pc = "persist_final",
                                       ![t].overall_summary = Some(text)]
          /\ UNCHANGED <<aggregate, collection, executor, retry, storage, files, jobs, results, calls>>
       \/ CollaboratorRaises(t)

\* a final update that assigns the two CV fields only
CandidateScoreCvOnly(task) ==
    [ cv_match_rate |-> task.scored_resume[1].cv_match_rate,
      cv_feedback |-> task.scored_resume[1].cv_feedback ]

\* candidate_score, the dict _process_job builds from the two scored results
CandidateScore(task) ==
    [ cv_match_rate |-> task.scored_resume[1].cv_match_rate,
      cv_feedback |-> task.scored_resume[1].cv_feedback,
      project_score |-> task.scored_project_report[1].project_score,
      project_feedback |-> task.scored_project_report[1].project_feedback,
      overall_summary |-> task.overall_summary ]

\* await self._persist_candidate_overall_summary(job_id, candidate_score)
RunPersistFinal(t) ==
    /\ tasks[t].pc = "persist_final"
    /\ ret' = NoRet
    /\ \/ TaskUpdateEvalResult(t, CandidateScore(tasks[t]), "update_job_completed")
       \/ PersistenceRaises(t)

\* update_job(status=completed, stage=None, error_message=None)
RunUpdateJobCompleted(t) ==
    /\ tasks[t].pc = "update_job_completed"
    /\ ret' = NoRet
    /\ \/ TaskUpdateJob(t, Some(completed), NULL, NULL, "done")
       \/ PersistenceRaises(t)

\* a handler that records the failure and then falls through to the completion
RunExceptFallsThrough(t) ==
    /\ tasks[t].pc = "except"
    /\ ret' = NoRet
    /\ \/ /\ jobs' = UpdateJob(jobs, tasks[t].job_id, Some(failed), NULL, tasks[t].exc)
          /\ TaskLeaveHandler(t, "update_job_completed")
          /\ UNCHANGED <<aggregate, collection, executor, retry, storage, files, results, calls>>
       \/ /\ TaskLeaveHandler(t, "crashed")
          /\ UNCHANGED <<aggregate, collection, executor, retry, storage, files, jobs, results, calls>>

\* a handler that records a fixed text in place of the exception's message
RunExceptGenericMessage(t) ==
    /\ tasks[t].pc = "except"
    /\ ret' = NoRet
    /\ \/ /\ jobs' = UpdateJob(jobs, tasks[t].job_id, Some(failed), NULL, Some("Pipeline failed"))
          /\ TaskLeaveHandler(t, "done")
          /\ UNCHANGED <<aggregate, collection, executor, retry, storage, files, results, calls>>
       \/ /\ TaskLeaveHandler(t, "crashed")
          /\ UNCHANGED <<aggregate, collection, executor, retry, storage, files, jobs, results, calls>>

\* a handler that rolls the EvaluationResult back to its empty row
RunExceptRollsBack(t) ==
    /\ tasks[t].pc = "except"
    /\ ret' = NoRet
    /\ \/ /\ jobs' = UpdateJob(jobs, tasks[t].job_id, Some(failed), NULL, tasks[t].exc)
          /\ results' = [results EXCEPT ![tasks[t].job_id] =
                            [i \in DOMAIN @ |-> NewResultRow]]
          /\ TaskLeaveHandler(t, "done")
          /\ UNCHANGED <<aggregate, collection, executor, retry, storage, files, calls>>
       \/ /\ TaskLeaveHandler(t, "crashed")
          /\ UNCHANGED <<aggregate, collection, executor, retry, storage, files, jobs, results, calls>>

\* a handler after which the run goes on with the report branch
RunExceptResumesReport(t) ==
    /\ tasks[t].pc = "except"
    /\ ret' = NoRet
    /\ \/ /\ jobs' = UpdateJob(jobs, tasks[t].job_id, Some(failed), NULL, tasks[t].exc)
          /\ TaskLeaveHandler(t, "extract_report")
          /\ UNCHANGED <<aggregate, collection, executor, retry, storage, files, results, calls>>
       \/ /\ TaskLeaveHandler(t, "crashed")
          /\ UNCHANGED <<aggregate, collection, executor, retry, storage, files, jobs, results, calls>>

\* a handler that records the failure and leaves the stage where the run stopped
RunExceptKeepsStage(t) ==
    /\ tasks[t].pc = "except"
    /\ ret' = NoRet
    /\ \/ /\ jobs' = UpdateJob(jobs, tasks[t].job_id, Some(failed), UNSET, tasks[t].exc)
          /\ TaskLeaveHandler(t, "done")
          /\ UNCHANGED <<aggregate, collection, executor, retry, storage, files, results, calls>>
       \/ /\ TaskLeaveHandler(t, "crashed")
          /\ UNCHANGED <<aggregate, collection, executor, retry, storage, files, jobs, results, calls>>

\* except Exception as exc: update_job(status=failed, stage=None,
\* error_message=str(exc)); when this update raises too, the task ends with it
RunExcept(t) ==
    /\ tasks[t].pc = "except"
    /\ ret' = NoRet
    /\ \/ /\ jobs' = UpdateJob(jobs, tasks[t].job_id, Some(failed), NULL, tasks[t].exc)
          /\ TaskLeaveHandler(t, "done")
          /\ UNCHANGED <<aggregate, collection, executor, retry, storage, files, results, calls>>
       \/ /\ TaskLeaveHandler(t, "crashed")
          /\ UNCHANGED <<aggregate, collection, executor, retry, storage, files, jobs, results, calls>>

RunStep(t) ==
    \/ RunUpdateJobProcessing(t)
    \/ RunCreateEvalResult(t)
    \/ RunExtractCv(t)
    \/ RunStageCvExtract(t)
    \/ RunParseResume(t)
    \/ RunPersistCvSnapshot(t)
    \/ RunStageCvScoring(t)
    \/ RunQueryCvRubric(t)
    \/ RunQueryJobDescription(t)
    \/ RunScoreResume(t)
    \/ RunPersistResumeScore(t)
    \/ RunExtractReport(t)
    \/ RunStageReportExtract(t)
    \/ RunParseProjectReport(t)
    \/ RunPersistProjectSnapshot(t)
    \/ RunStageReportScoring(t)
    \/ RunQueryProjectRubric(t)
    \/ RunQueryCaseStudy(t)
    \/ RunScoreProjectReport(t)
    \/ RunPersistReportScore(t)
    \/ RunOverallSummary(t)
    \/ RunPersistFinal(t)
    \/ RunUpdateJobCompleted(t)
    \/ RunExcept(t)

\* the awaits of _process_cv, in order
CvBranchPcs ==
    { "extract_cv", "stage_cv_extract", "parse_resume", "persist_cv_snapshot",
      "stage_cv_scoring", "query_cv_rubric", "query_job_description",
      "score_resume", "persist_resume_score" }

\* the awaits of _process_project_report, in order
ReportBranchPcs ==
    { "extract_report", "stage_report_extract", "parse_project_report",
      "persist_project_snapshot", "stage_report_scoring", "query_project_rubric",
      "query_case_study", "score_project_report", "persist_report_score" }

\* the awaits of _process_job that follow the two branches
AfterBranchesPcs == { "overall_summary", "persist_final", "update_job_completed" }

\* the awaits that call a collaborator: document open and text extraction,
\* parsing, context retrieval, scoring, summary
CollaboratorPcs ==
    { "extract_cv", "parse_resume", "query_cv_rubric", "query_job_description",
      "score_resume", "extract_report", "parse_project_report",
      "query_project_rubric", "query_case_study", "score_project_report",
      "overall_summary" }

\* the awaits that call the vector store (context retrieval)
QueryPcs ==
    { "query_cv_rubric", "query_job_description", "query_project_rubric",
      "query_case_study" }

\* the awaits that call an external adapter: structured parsing, scoring,
\* context retrieval, summary
AdapterPcs ==
    { "parse_resume", "score_resume", "parse_project_report",
      "score_project_report", "overall_summary" } \cup QueryPcs

\* the awaits that call the repository: update_job, create_eval_result,
\* update_eval_result
PersistencePcs ==
    { "update_job_processing", "create_eval_result", "stage_cv_extract",
      "persist_cv_snapshot", "stage_cv_scoring", "persist_resume_score",
      "stage_report_extract", "persist_project_snapshot", "stage_report_scoring",
      "persist_report_score", "persist_final", "update_job_completed" }

----------------------------------------------------------------------------
(* The system *)

Init ==
    /\ storage \in StorageKinds
    /\ files = {}
    /\ jobs = [j \in JobIds |-> <<>>]
    /\ results = [j \in JobIds |-> <<>>]
    /\ tasks = <<>>
    /\ calls = [c \in Callers |-> IdleCall]
    /\ ret = NoRet
    /\ retry = NULL
    /\ executor = NewExecutor(DefaultMaxWorkers)
    /\ collection = {}
    /\ aggregate = NULL

EnqStep(c) ==
    \/ \E payload \in PayloadsOneJob : EnqStart(c, payload)
    \/ EnqGetStatus(c)
    \/ EnqExistsCv(c)
    \/ EnqExistsReport(c)
    \/ EnqCreateJob(c)
    \/ EnqIntegrityGetStatus(c)
    \/ EnqSubmit(c)

Next ==
    \/ \E c \in Callers : EnqStep(c)
    \/ \E t \in TaskIds : RunStep(t)
    \/ \E f \in FileIds : Upload(f)

Spec == Init /\ [][Next]_vars

----------------------------------------------------------------------------
(* The status reader next to admission and the pipeline *)

\* EvalService.get_status: return await self._repository.get_status(job_id)
EvalServiceGetStatus(job_id) ==
    /\ LET view == GetStatus(jobs, results, job_id) IN
        ret' = IF ~IsNull(view.exc)
               THEN [kind |-> "view_raise", job_id |-> job_id, exc |-> view.exc[1]]
               ELSE [kind |-> "view", job_id |-> job_id, view |-> view]
    /\ UNCHANGED <<aggregate, collection, executor, retry, storage, files, jobs, results, tasks, calls>>

\* routes_result.read_result: the view, or HTTP 404 for the sentinel view
ReadResult(job_id) ==
    /\ LET result == GetStatus(jobs, results, job_id) IN
        ret' = IF ~IsNull(result.exc)
               THEN [kind |-> "view_raise", job_id |-> job_id, exc |-> result.exc[1]]
               ELSE IF /\ result.status = failed
                       /\ result.error_message = Some(UnknownJobMessage)
               THEN [kind |-> "http", job_id |-> job_id, status_code |-> 404,
                     detail |-> result.error_message]
               ELSE [kind |-> "http", job_id |-> job_id, status_code |-> 200,
                     body |-> result]
    /\ UNCHANGED <<aggregate, collection, executor, retry, storage, files, jobs, results, tasks, calls>>

ReaderCallers == 1..MaxReaderCallers

NextReader ==
    \/ \E c \in ReaderCallers : EnqStep(c)
    \/ \E t \in TaskIds : RunStep(t)
    \/ \E f \in FileIds : Upload(f)
    \/ \E j \in JobIds : EvalServiceGetStatus(j)
    \/ \E j \in JobIds : ReadResult(j)

SpecReader == Init /\ [][NextReader]_vars

----------------------------------------------------------------------------
(* The retry loop on its own: one call of async_retry / sync_retry with
   arguments drawn from small sets, the operation free to return or raise *)

BaseDelays == {1, 2}
MaxDelays == {1, 4}
Jitters == {0, 1}

\* the should_retry arguments: none, or is_retryable_gemini_error
ShouldRetryArgs ==
    { NULL, Some([exc \in ExcClasses |-> IsRetryableGeminiError(exc)]) }

\* the retry_exceptions arguments: none, or (errors.APIError,)
RetryExceptionsArgs == { NULL, Some(ApiErrorClasses) }

RetryCalls ==
    { RetryCall(a, b, m, j, re, sr) :
        a \in 0..MaxAttempts, b \in BaseDelays, m \in MaxDelays, j \in Jitters,
        re \in RetryExceptionsArgs, sr \in ShouldRetryArgs }

InitRetry ==
    /\ storage = "LocalStorage"
    /\ files = {}
    /\ jobs = [j \in JobIds |-> <<>>]
    /\ results = [j \in JobIds |-> <<>>]
    /\ tasks = <<>>
    /\ calls = [c \in Callers |-> IdleCall]
    /\ ret = NoRet
    /\ retry \in RetryCalls
    /\ executor = NewExecutor(DefaultMaxWorkers)
    /\ collection = {}
    /\ aggregate = NULL

\* return await operation()
RetryOperationReturns ==
    /\ IsNull(retry.outcome)
    /\ retry' = RetryIteration(retry, "ok", 0)
    /\ UNCHANGED <<aggregate, collection, executor, storage, files, jobs, results, tasks, calls, ret>>

\* except Exception as exc: give up, or sleep and go round again
RetryOperationRaises(exc, u) ==
    /\ IsNull(retry.outcome)
    /\ retry' = RetryIteration(retry, exc, u)
    /\ UNCHANGED <<aggregate, collection, executor, storage, files, jobs, results, tasks, calls, ret>>

NextRetry ==
    \/ RetryOperationReturns
    \/ \E exc \in ExcClasses : \E u \in 0..retry.jitter : RetryOperationRaises(exc, u)

SpecRetry == InitRetry /\ [][NextRetry]_vars

----------------------------------------------------------------------------
(* Several jobs on the one event loop.  Every coroutine step (an enqueue call,
   an upload, a pipeline run created by loop.create_task) is run by the thread
   of the event loop.  ChromaDBVectorStore.query is declared async but awaits
   nothing: the embedding call, its sync_retry loop and the time.sleep of its
   backoff run on that thread, which runs no other coroutine until query
   returns.  Here retry holds the sync_retry loop the thread is in (with the
   task that called it), or NULL. *)

\* InProcessQueue(max_workers): the queue is constructed with the smallest pool,
\* one worker, which two accepted jobs exceed
MaxWorkersArgs == {1}

\* what embed_content does on one attempt: it returns, or the remote API answers
\* with a 5xx error
LoopEmbedResults == {"ok", "ServerError"}

\* requests for two different evaluations
LoopPayloads == { p \in Payloads : p.job_title \in {<<"a">>, <<"b">>} }

InitLoop ==
    /\ storage = "StorageWithExists"
    /\ files = FileIds
    /\ jobs = [j \in JobIds |-> <<>>]
    /\ results = [j \in JobIds |-> <<>>]
    /\ tasks = <<>>
    /\ calls = [c \in Callers |-> IdleCall]
    /\ ret = NoRet
    /\ retry = NULL
    /\ executor \in { NewExecutor(n) : n \in MaxWorkersArgs }
    /\ collection = {}
    /\ aggregate = NULL

\* the thread of the event loop is not inside a synchronous call
LoopFree == IsNull(retry)

\* the await that follows each context retrieval
AfterQuery(pc) ==
    CASE pc = "query_cv_rubric" -> "query_job_description"
      [] pc = "query_job_description" -> "score_resume"
      [] pc = "query_project_rubric" -> "query_case_study"
      [] pc = "query_case_study" -> "score_project_report"

\* the event loop runs a step of an enqueue call
LoopEnqStep(c) ==
    /\ LoopFree
    /\ \/ \E payload \in LoopPayloads : EnqStart(c, payload)
       \/ EnqGetStatus(c)
       \/ EnqExistsCv(c)
       \/ EnqExistsReport(c)
       \/ EnqCreateJob(c)
       \/ EnqIntegrityGetStatus(c)
       \/ EnqSubmit(c)

\* the event loop runs task t up to its next await (the context retrievals are
\* taken apart below); of the calls a run makes only the context retrievals
\* fail here
LoopRunStep(t) ==
    /\ LoopFree
    /\ tasks[t].pc \notin QueryPcs
    /\ RunStep(t)
    /\ tasks'[t].pc # "except"

\* task t calls self._vector_store.query: collection.query embeds the query
\* text, GeminiEmbeddingFunction.__call__ enters sync_retry
QueryEnter(t) ==
    /\ LoopFree
    /\ tasks[t].pc \in QueryPcs
    /\ ret' = NoRet
    /\ retry' = [task |-> t] @@ EmbeddingRetryCall
    /\ UNCHANGED <<aggregate, collection, executor, storage, files, jobs, results, tasks, calls>>

\* one iteration of sync_retry on the thread of the event loop: embed_content
\* returns or raises, and on a retryable error the thread is in
\* time.sleep(sleep_for) until the next iteration; u is the jitter draw
EmbedContent(result, u) ==
    /\ ~IsNull(retry)
    /\ IsNull(retry.outcome)
    /\ retry' = RetryIteration(retry, result, u)
    /\ UNCHANGED <<aggregate, collection, executor, storage, files, jobs, results, tasks, calls, ret>>

\* sync_retry is over: query returns its documents to the task, or the error of
\* the last embedding attempt goes up to the handler of _process_job
QueryLeave ==
    /\ ~IsNull(retry)
    /\ ~IsNull(retry.outcome)
    /\ LET t == retry.task
           o == retry.outcome[1] IN
       IF o.kind = "return"
       THEN TaskGoto(t, AfterQuery(tasks[t].pc))
       ELSE TaskRaiseWith(t, "boom", o.exc, o.invocation)
    /\ retry' = NULL
    /\ ret' = NoRet
    /\ UNCHANGED <<aggregate, collection, executor, storage, files, jobs, results, calls>>

NextLoop ==
    \/ \E c \in Callers : LoopEnqStep(c)
    \/ \E t \in TaskIds : LoopRunStep(t)
    \/ \E t \in TaskIds : QueryEnter(t)
    \/ \E result \in LoopEmbedResults : EmbedContent(result, 0)
    \/ QueryLeave

SpecLoop == InitLoop /\ [][NextLoop]_vars

----------------------------------------------------------------------------
(* The score aggregators on their own: one call of _calculate_cv_match_rate or
   _calculate_project_score with an argument drawn from small sets *)

\* raw scores: missing or not a number, 0, 3, 5, an int beyond float range
AggScores == { NULL, Some(0), Some(300), Some(500), HugeInt }

\* raw weights: missing or not a number, 0, -25, the fraction 0.5, the
\* percentages 1, 25 and 50, an int beyond float range
AggWeights ==
    { NULL, Some(0), Some(-2500), Some(50), Some(100), Some(2500), Some(5000), HugeInt }

\* the range of a sequence
Range(seq) == { seq[i] : i \in 1..Len(seq) }

\* the dictionaries the scorer may hand to an aggregator: one score and one
\* weight for all components but one, which has a score and a weight of its own
ScoredDicts(components) ==
    { [ scores |-> [d \in Range(components) |-> IF d = components[k] THEN s1 ELSE s0],
        weights |-> [d \in Range(components) |-> IF d = components[k] THEN w1 ELSE w0] ] :
      <<k, s0, w0, s1, w1>> \in
          (1..Len(components)) \X AggScores \X AggWeights \X AggScores \X AggWeights }

\* what a call of an aggregator gives: the number it returns (in thousandths) or
\* the exception that leaves it
AggregatorReturns(value) == [kind |-> "return", exc |-> "none", value |-> value]

AggregatorRaised(exc) == [kind |-> "raise", exc |-> exc, value |-> 0]

CvMatchRateCall(scored) ==
    IF AggregatorRaises(scored, CvComponents)
    THEN AggregatorRaised("OverflowError")
    ELSE AggregatorReturns(CalculateCvMatchRate(scored))

ProjectScoreCall(scored) ==
    IF AggregatorRaises(scored, ProjectComponents)
    THEN AggregatorRaised("OverflowError")
    ELSE AggregatorReturns(CalculateProjectScore(scored))

InitAggregate ==
    /\ storage = "LocalStorage"
    /\ files = {}
    /\ jobs = [j \in JobIds |-> <<>>]
    /\ results = [j \in JobIds |-> <<>>]
    /\ tasks = <<>>
    /\ calls = [c \in Callers |-> IdleCall]
    /\ ret = NoRet
    /\ retry = NULL
    /\ executor = NewExecutor(DefaultMaxWorkers)
    /\ collection = {}
    /\ aggregate \in
          { [aggregator |-> "cv", scored |-> d, result |-> NULL] :
                d \in ScoredDicts(CvComponents) }
          \cup
          { [aggregator |-> "project", scored |-> d, result |-> NULL] :
                d \in ScoredDicts(ProjectComponents) }

\* scored_resume["cv_match_rate"] = self._calculate_cv_match_rate(scored_resume)
AggregateCv ==
    /\ aggregate.aggregator = "cv"
    /\ IsNull(aggregate.result)
    /\ aggregate' = [aggregate EXCEPT !.result = Some(CvMatchRateCall(aggregate.scored))]
    /\ UNCHANGED <<collection, executor, retry, storage, files, jobs, results, tasks, calls, ret>>

\* scored_project_report["project_score"] = self._calculate_project_score(...)
AggregateProject ==
    /\ aggregate.aggregator = "project"
    /\ IsNull(aggregate.result)
    /\ aggregate' = [aggregate EXCEPT !.result = Some(ProjectScoreCall(aggregate.scored))]
    /\ UNCHANGED <<collection, executor, retry, storage, files, jobs, results, tasks, calls, ret>>

NextAggregate ==
    \/ AggregateCv
    \/ AggregateProject

SpecAggregate == InitAggregate /\ [][NextAggregate]_vars

----------------------------------------------------------------------------
(* The repository on its own: create_job, create_eval_result, update_job and
   update_eval_result called with arguments drawn from small sets, on ids with
   and without a row *)

\* the status, stage and error_message arguments of update_job
UpdateJobStatusArgs == { NULL, Some(processing), Some(failed) }
UpdateJobStageArgs == { UNSET, NULL, Some("cv_ingest") }
UpdateJobErrorArgs == { UNSET, NULL, Some("boom") }

\* the assignments of update_eval_result that store one snapshot
SnapshotPatches == { [c \in {f} |-> Some("snapshot")] : f \in RawFields }

\* await self._repository.create_job(job_id, payload)
RepoCreateJob(payload) ==
    /\ ~CreateJobViolates(jobs, DeriveJobId(payload))
    /\ jobs' = CreateJob(jobs, DeriveJobId(payload), payload)
    /\ UNCHANGED <<aggregate, collection, executor, retry, storage, files, results, tasks, calls, ret>>

\* await self._repository.create_eval_result(job_id), job_id a foreign key
RepoCreateEvalResult(job_id) ==
    /\ Len(jobs[job_id]) > 0
    /\ ~CreateEvalResultViolates(results, job_id)
    /\ results' = CreateEvalResult(results, job_id)
    /\ UNCHANGED <<aggregate, collection, executor, retry, storage, files, jobs, tasks, calls, ret>>

\* await self._repository.update_job(job_id, status, stage, error_message)
RepoUpdateJob(job_id, status, stage, error_message) ==
    /\ \A i \in 1..Len(jobs[job_id]) : jobs[job_id][i].updated_at < MaxUpdates
    /\ jobs' = UpdateJob(jobs, job_id, status, stage, error_message)
    /\ UNCHANGED <<aggregate, collection, executor, retry, storage, files, results, tasks, calls, ret>>

\* await self._repository.update_eval_result(job_id, assignments, params)
RepoUpdateEvalResult(job_id, patch) ==
    /\ results' = UpdateEvalResult(results, job_id, patch)
    /\ UNCHANGED <<aggregate, collection, executor, retry, storage, files, jobs, tasks, calls, ret>>

NextRepository ==
    \/ \E payload \in PayloadsOneJob : RepoCreateJob(payload)
    \/ \E j \in JobIds : RepoCreateEvalResult(j)
    \/ \E j \in JobIds : \E status \in UpdateJobStatusArgs :
          \E stage \in UpdateJobStageArgs : \E error_message \in UpdateJobErrorArgs :
              RepoUpdateJob(j, status, stage, error_message)
    \/ \E j \in JobIds : \E patch \in SnapshotPatches : RepoUpdateEvalResult(j, patch)

SpecRepository == Init /\ [][NextRepository]_vars

----------------------------------------------------------------------------
(* Properties *)

\* the tasks handed to the queue for job identity j
TasksOf(j) == { t \in DOMAIN tasks : tasks[t].job_id = j }

HasRow(j) == Len(jobs[j]) > 0

\* caller c takes a step of enqueue from the await named pc
Steps(c, pc) == calls[c].pc = pc /\ calls'[c] # calls[c]

\* C1: under any interleaving of concurrent enqueue calls and pipeline steps, at
\* most one _process_job run is ever handed to the queue for one job identity.
C1_AtMostOneRunPerIdentity ==
    \A j \in JobIds : Cardinality(TasksOf(j)) <= 1

\* a concurrent identical submission lost the insert race while the winner's run
\* had been handed to the queue
C1_Witness ==
    /\ Len(tasks) = 1
    /\ \E c \in Callers : calls[c].pc = "integrity_get_status"

\* two requests are the same evaluation: titles equal after trimming, same documents
SameRequest(p, q) ==
    /\ Strip(p.job_title) = Strip(q.job_title)
    /\ p.cv_id = q.cv_id
    /\ p.report_id = q.report_id

\* the job rows, of whatever id, created for the evaluation that request p asks for
RowsFor(p) ==
    { ji \in UNION { { <<j, i>> : i \in DOMAIN jobs[j] } : j \in JobIds } :
        LET row == jobs[ji[1]][ji[2]] IN
        SameRequest(p, [ job_title |-> row.job_title, cv_id |-> row.cv_file_id,
                         report_id |-> row.report_file_id ]) }

\* C2: two enqueue calls whose job_title values are equal after trimming and whose
\* cv_id and report_id are equal derive the same job id, and after any sequence
\* of such calls at most one job row exists for them.
C2_DedupIdempotence ==
    /\ \A p, q \in Payloads : SameRequest(p, q) => DeriveJobId(p) = DeriveJobId(q)
    /\ \A c \in Callers :
            calls[c].pc # "idle" => calls[c].job_id = DeriveJobId(calls[c].payload)
    /\ \A p \in Payloads : Cardinality(RowsFor(p)) <= 1

\* a second submission, its title spelled with other whitespace than the stored
\* one, was answered with the id of the one existing row
C2_Witness ==
    /\ ret.kind = "response"
    /\ ret.id = DeriveJobId(ret.payload)
    /\ Len(jobs[ret.id]) = 1
    /\ jobs[ret.id][1].job_title # ret.payload.job_title
    /\ Len(tasks) = 1

\* C3: whenever a job row already exists for the derived identity, whatever its
\* status and error_message, enqueue returns {that identity, the row's current
\* status}, raises nothing, creates no row, mutates no row and hands nothing to
\* the queue.
C3_ExistingRowShortCircuits ==
    [][ \A c \in Callers :
            (Steps(c, "get_status") /\ HasRow(calls[c].job_id)) =>
                /\ ret' = Response(c, calls[c].job_id, jobs[calls[c].job_id][1].status)
                /\ UNCHANGED <<jobs, results, tasks>> ]_vars

\* C4: when create_job fails with a uniqueness violation, enqueue hands nothing to
\* the queue and returns the existing job's current status; the uniqueness error
\* is propagated only when the follow-up lookup still finds no row.
C4_LostRaceReturnsCurrentStatus ==
    [][ \A c \in Callers :
            Steps(c, "integrity_get_status") =>
                /\ UNCHANGED <<jobs, results, tasks>>
                /\ IF HasRow(calls[c].job_id)
                   THEN ret' = Response(c, calls[c].job_id,
                                        jobs[calls[c].job_id][1].status)
                   ELSE ret' = Raised(c, "IntegrityError") ]_vars

\* C5: if the CV document or the report document is missing from storage and no
\* job row exists for the identity, enqueue returns a failed response
\* synchronously, creates no job row and starts no run.
C5_MissingDocumentFailsSynchronously ==
    [][ \A c \in Callers :
            /\ (Steps(c, "exists_cv") /\ calls[c].payload.cv_id \notin files) =>
                    /\ calls'[c].pc = "exists_report"
                    /\ UNCHANGED <<jobs, results, tasks>>
            /\ (/\ Steps(c, "exists_report")
                 /\ \/ ~calls[c].is_cv_exist
                    \/ calls[c].payload.report_id \notin files) =>
                    /\ ret' = Response(c, InvalidDocsId, failed)
                    /\ UNCHANGED <<jobs, results, tasks>> ]_vars

\* C6: enqueue of a new job returns {identity, queued} right after the handoff to
\* the queue, without any step of that job's pipeline run having executed.
C6_AdmissionDoesNotWaitForRun ==
    [][ \A c \in Callers :
            Steps(c, "submit") =>
                /\ ret' = Response(c, calls[c].job_id, queued)
                /\ Len(tasks') = Len(tasks) + 1
                /\ tasks'[Len(tasks')] = NewTask(calls[c].job_id, calls[c].payload)
                /\ UNCHANGED <<jobs, results>> ]_vars

\* the queued response has been delivered while the run stands at its first await
\* and the row is still queued
C6_Witness ==
    /\ ret.kind = "response"
    /\ ret.status = queued
    /\ Len(tasks) = 1
    /\ tasks[1].pc = "update_job_processing"
    /\ jobs[tasks[1].job_id][1].status = queued

Terminal(j) == HasRow(j) /\ jobs[j][1].status \in {completed, failed}

\* C7: once a job's status is completed or failed, no later operation changes its
\* status, stage or error_message, nor any field of its EvaluationResult.
C7_TerminalIsFrozen ==
    [][ \A j \in JobIds : Terminal(j) => UNCHANGED <<jobs[j], results[j]>> ]_vars

\* a terminal job was submitted again and answered
C7_Witness ==
    /\ ret.kind = "response"
    /\ ret.id \in JobIds
    /\ Terminal(ret.id)
    /\ ret.status = jobs[ret.id][1].status

\* the place of a (status, stage) pair in the order of the state machine
Rank(row) ==
    CASE row.status = queued /\ row.stage = NULL -> 0
      [] row.status = processing /\ row.stage = Some("cv_ingest") -> 1
      [] row.status = processing /\ row.stage = Some("cv_extract") -> 2
      [] row.status = processing /\ row.stage = Some("cv_scoring") -> 3
      [] row.status = processing /\ row.stage = Some("report_extract") -> 4
      [] row.status = processing /\ row.stage = Some("report_scoring") -> 5
      [] row.status = completed /\ row.stage = NULL -> 6
      [] row.status = failed /\ row.stage = NULL -> 7
      [] OTHER -> 8

\* C8: for every job the recorded (status, stage) pairs are a prefix of queued/null,
\* processing/cv_ingest, cv_extract, cv_scoring, report_extract, report_scoring,
\* optionally followed by one terminal status: no stage out of this order, and
\* completed only after report_scoring.
C8_StagesStrictlyForward ==
    [][ \A j \in JobIds :
            /\ (~HasRow(j) /\ HasRow(j)') => Rank(jobs'[j][1]) = 0
            /\ (HasRow(j) /\ Rank(jobs'[j][1]) # Rank(jobs[j][1])) =>
                    \/ Rank(jobs[j][1]) < 5 /\ Rank(jobs'[j][1]) = Rank(jobs[j][1]) + 1
                    \/ Rank(jobs[j][1]) = 5 /\ Rank(jobs'[j][1]) = 6
                    \/ Rank(jobs[j][1]) <= 5 /\ Rank(jobs'[j][1]) = 7 ]_vars

\* a run went through every stage and was recorded completed
C8_Witness ==
    \E j \in JobIds : HasRow(j) /\ Rank(jobs[j][1]) = 6

FinalFieldsSet(j) ==
    /\ Len(results[j]) > 0
    /\ \A f \in FinalFields : ~IsNull(results[j][1][f])

\* C9: in every reachable state, a job with status completed has all five final
\* fields set (non-null) in its EvaluationResult.
C9_CompletedHasAllFinalFields ==
    \A j \in JobIds :
        (HasRow(j) /\ jobs[j][1].status = completed) => FinalFieldsSet(j)

\* C10: in every reachable state, a job whose status is queued or processing has
\* at least one of the five final fields unset in its EvaluationResult.
C10_UnfinishedLacksAFinalField ==
    \A j \in JobIds :
        (HasRow(j) /\ jobs[j][1].status \in {queued, processing}) =>
            ~FinalFieldsSet(j)

\* the run of task t is over: it returned, or ended with an unhandled exception
Ended(t) == tasks[t].pc \in {"done", "crashed"}

\* the exception caught in the run of task t was raised at one of the awaits pcs
RaisedIn(t, pcs) ==
    ~IsNull(tasks[t].raised_at) /\ tasks[t].raised_at[1] \in pcs

\* the handler of the run of task t records the failure in this step
HandlerRecords(t) == tasks[t].pc = "except" /\ tasks'[t].pc = "done"

\* once the run of task t is over, neither the task nor the rows of its job change
OverIsOver(t) ==
    Ended(t) =>
        /\ tasks'[t] = tasks[t]
        /\ jobs'[tasks[t].job_id] = jobs[tasks[t].job_id]
        /\ results'[tasks[t].job_id] = results[tasks[t].job_id]

C12_SnapshotsSurviveFailure ==
    /\ [](\A t \in DOMAIN tasks :
            RaisedIn(t, ReportBranchPcs \cup AfterBranchesPcs) =>
                /\ ~IsNull(results[tasks[t].job_id][1].raw_cv_json)
                /\ ~IsNull(results[tasks[t].job_id][1].raw_resume_score_json))
    /\ [][ /\ \A j \in JobIds : \A f \in RawFields :
                (Len(results[j]) > 0 /\ ~IsNull(results[j][1][f])) =>
                    /\ Len(results'[j]) > 0
                    /\ results'[j][1][f] = results[j][1][f]
           /\ \A t \in DOMAIN tasks :
                tasks[t].pc = "except" =>
                    results'[tasks[t].job_id] = results[tasks[t].job_id] ]_vars

\* the report branch failed after the CV branch succeeded, and the failed job
\* holds the two CV snapshots and no report snapshot
C12_Witness ==
    \E t \in DOMAIN tasks :
        /\ tasks[t].pc = "done"
        /\ jobs[tasks[t].job_id][1].status = failed
        /\ jobs[tasks[t].job_id][1].error_message =
                Some("Unable to extract text from Report Project PDF.")
        /\ Len(results[tasks[t].job_id]) > 0
        /\ ~IsNull(results[tasks[t].job_id][1].raw_cv_json)
        /\ ~IsNull(results[tasks[t].job_id][1].raw_resume_score_json)
        /\ IsNull(results[tasks[t].job_id][1].raw_project_json)

\* the report branch has left no trace on the job of task t
NoReportTrace(t) ==
    /\ IsNull(tasks[t].scored_project_report)
    /\ jobs[tasks[t].job_id][1].stage \notin
            {Some("report_extract"), Some("report_scoring")}
    /\ IsNull(results[tasks[t].job_id][1].raw_project_json)
    /\ IsNull(results[tasks[t].job_id][1].raw_project_score_json)

\* C13: if the CV branch fails at any point, the report branch never starts: the
\* run goes to the handler and ends there, no call of the report branch is
\* made, the stage is never report_extract or report_scoring, and
\* raw_project_json and raw_project_score_json stay unset.
C13_CvFailureSkipsReportBranch ==
    /\ [](\A t \in DOMAIN tasks :
            RaisedIn(t, CvBranchPcs) => (tasks[t].pc = "except" /\ NoReportTrace(t)))
    /\ [][ \A t \in DOMAIN tasks :
            /\ (tasks[t].pc = "except" /\ RaisedIn(t, CvBranchPcs)) =>
                    /\ tasks'[t].pc \in {"except", "done", "crashed"}
                    /\ NoReportTrace(t)'
            /\ OverIsOver(t) ]_vars

\* a run failed in the CV branch after the CV snapshot was written, and ended
C13_Witness ==
    \E t \in DOMAIN tasks :
        /\ tasks[t].pc = "done"
        /\ jobs[tasks[t].job_id][1].status = failed
        /\ Len(results[tasks[t].job_id]) > 0
        /\ ~IsNull(results[tasks[t].job_id][1].raw_cv_json)
        /\ IsNull(results[tasks[t].job_id][1].raw_resume_score_json)
        /\ IsNull(results[tasks[t].job_id][1].raw_project_json)

\* the delay the loop is to sleep before the k-th retry when jitter is 0
BackoffDelay(base_delay, max_delay, k) ==
    IF base_delay * (2 ^ (k - 1)) < max_delay
    THEN base_delay * (2 ^ (k - 1))
    ELSE max_delay

\* C20: with jitter 0 the delay slept before the k-th retry is exactly
\* min(max_delay, base_delay * 2^(k-1)); for base_delay 1 and max_delay 4 the
\* delays before attempts 2, 3 and 4 are 1, 2 and 4; successive delays never
\* decrease and none exceeds max_delay.
C20_BackoffDelays ==
    (~IsNull(retry) /\ retry.jitter = 0) =>
        /\ \A k \in DOMAIN retry.sleeps :
                /\ retry.sleeps[k] = BackoffDelay(retry.base_delay, retry.max_delay, k)
                /\ retry.sleeps[k] <= retry.max_delay
                /\ k > 1 => retry.sleeps[k] >= retry.sleeps[k - 1]
        /\ (retry.base_delay = 1 /\ retry.max_delay = 4) =>
                \A k \in DOMAIN retry.sleeps :
                    k <= 3 => retry.sleeps[k] = <<1, 2, 4>>[k]

\* three retries were slept for with base_delay 1, max_delay 4 and jitter 0
C20_Witness ==
    /\ ~IsNull(retry)
    /\ retry.jitter = 0 /\ retry.base_delay = 1 /\ retry.max_delay = 4
    /\ retry.sleeps = <<1, 2, 4>>
    /\ retry.attempt = 4

\* the exception in flight in the run of task t is a transient remote error
\* (one the retry predicate classifies retryable) raised by an adapter call
TransientAdapterError(t) ==
    /\ tasks[t].pc = "except"
    /\ RaisedIn(t, AdapterPcs)
    /\ IsRetryableGeminiError(tasks[t].exc_info[1].class)

\* C14: every external adapter call of the pipeline is guarded by the Retrier: a
\* transient error reaches the handler and fails the job only when the attempt
\* budget is exhausted, that is after the call was retried (for context
\* retrieval: after all the attempts of its retry loop).
C14_TransientErrorsAreRetried ==
    \A t \in DOMAIN tasks :
        TransientAdapterError(t) =>
            IF tasks[t].raised_at[1] \in QueryPcs
            THEN tasks[t].exc_info[1].attempts = EmbeddingRetryAttempts
            ELSE tasks[t].exc_info[1].attempts > 1

\* the part of C14 that the code keeps: a transient error of context retrieval
\* reaches the handler only after all the attempts of the embedding retry loop
C14_RetrievalIsRetried ==
    \A t \in DOMAIN tasks :
        (TransientAdapterError(t) /\ tasks[t].raised_at[1] \in QueryPcs) =>
            tasks[t].exc_info[1].attempts = EmbeddingRetryAttempts

\* C15: if a persistence operation raises during a pipeline run, whichever
\* operation of the run it is (the handler's own update_job included), the job
\* ends with status failed and the error message recorded: a run that has ended
\* with an exception, caught or not, has left its job failed with a message.
C15_PersistenceFailureFailsJob ==
    \A t \in DOMAIN tasks :
        (Ended(t) /\ jobs[tasks[t].job_id][1].status # completed) =>
            /\ jobs[tasks[t].job_id][1].status = failed
            /\ ~IsNull(jobs[tasks[t].job_id][1].error_message)

\* the part of C15 that the code keeps: when a persistence operation inside the
\* try block raises and the handler's update is carried out, the job is failed
\* with the message of the exception
C15_HandledPersistenceFailure ==
    [][ \A t \in DOMAIN tasks :
            (HandlerRecords(t) /\ RaisedIn(t, PersistencePcs)) =>
                /\ jobs'[tasks[t].job_id][1].status = failed
                /\ jobs'[tasks[t].job_id][1].stage = NULL
                /\ jobs'[tasks[t].job_id][1].error_message = tasks[t].exc ]_vars

\* C16: a failed job is never run again: an enqueue call made for a request whose
\* job is failed is answered by its lookup with {identity, failed}, starts no run
\* and leaves the job row and its EvaluationResult unchanged.
C16_FailedJobIsNeverRerun ==
    [][ \A c \in Callers :
            (/\ Steps(c, "get_status")
             /\ HasRow(calls[c].job_id)
             /\ jobs[calls[c].job_id][1].status = failed) =>
                /\ calls'[c].pc = "idle"
                /\ ret'.kind = "response"
                /\ ret'.id = calls[c].job_id
                /\ ret'.status = failed
                /\ UNCHANGED <<jobs, results, tasks>> ]_vars

\* C17: get_status for an identity with no job row returns a view with status
\* failed, error_message "Unknown job id", no stage and no result; it raises
\* nothing and creates or changes no row.
C17_UnknownIdentityGetsSentinelView ==
    [][ \A j \in JobIds :
            (ret'.kind \in {"view", "view_raise"} /\ ret'.job_id = j /\ ~HasRow(j)) =>
                /\ ret' = [ kind |-> "view", job_id |-> j,
                            view |-> [ id |-> j, status |-> failed, stage |-> NULL,
                                       result |-> NULL,
                                       error_message |-> Some("Unknown job id"),
                                       exc |-> NULL ] ]
                /\ UNCHANGED <<jobs, results, tasks>> ]_vars

\* the status of an identity never submitted was queried while another job exists
C17_Witness ==
    /\ ret.kind = "view"
    /\ ~HasRow(ret.job_id)
    /\ ret.view.status = failed
    /\ \E j \in JobIds : HasRow(j)

\* some final field of the EvaluationResult of job j is set
SomeFinalFieldSet(j) ==
    /\ Len(results[j]) > 0
    /\ \E f \in FinalFields : ~IsNull(results[j][1][f])

\* C18: for an existing job, get_status returns the job's persisted status, stage
\* and error_message, and a result portion (the five final fields) that is
\* present exactly when at least one of the five final fields is non-null.
C18_ViewOfExistingJob ==
    [][ \A j \in JobIds :
            (ret'.kind \in {"view", "view_raise"} /\ ret'.job_id = j /\ HasRow(j)) =>
                /\ ret'.kind = "view"
                /\ ret'.view.id = j
                /\ ret'.view.status = jobs[j][1].status
                /\ ret'.view.stage = jobs[j][1].stage
                /\ ret'.view.error_message = jobs[j][1].error_message
                /\ ~IsNull(ret'.view.result) <=> SomeFinalFieldSet(j)
                /\ ~IsNull(ret'.view.result) =>
                        \A f \in FinalFields :
                            ret'.view.result[1][f] = results[j][1][f]
                /\ UNCHANGED <<jobs, results, tasks>> ]_vars

\* a job holding raw snapshots only was queried and its view has no result portion
C18_Witness ==
    /\ ret.kind = "view"
    /\ HasRow(ret.job_id)
    /\ Len(results[ret.job_id]) > 0
    /\ ~IsNull(results[ret.job_id][1].raw_cv_json)
    /\ IsNull(ret.view.result)
    /\ ret.view.stage = jobs[ret.job_id][1].stage

\* C19: the unknown-job sentinel view is produced only for identities with no job
\* row: no existing job, whatever error text its failed run recorded, is
\* classified as unknown by _is_unknown_job or answered 404 by the result route.
C19_SentinelOnlyForMissingRows ==
    /\ \A j \in JobIds :
            HasRow(j) => ~IsUnknownJob(GetStatus(jobs, results, j))
    /\ (ret.kind = "http" /\ ret.status_code = 404) => ~HasRow(ret.job_id)

\* an invocation after which the loop goes round no more: it returned, or it
\* raised an error the retry predicate refuses
Stops(r, result) == result = "ok" \/ ~RetryAllowed(r, result)

\* C21: with attempts < 1 the operation is never invoked and the retrier raises a
\* configuration error; otherwise the operation is invoked exactly
\* min(attempts, index of the first invocation that succeeds or fails
\* non-retryably) times: no invocation follows a success or a non-retryable
\* error, a finished loop ended at such an invocation or at the last budgeted
\* one, and every sleep lies between two invocations (one sleep after each
\* invocation but the last).
C21_InvocationCount ==
    LET n == Len(retry.invocations) IN
    /\ retry.attempts < 1 =>
         /\ n = 0
         /\ retry.sleeps = <<>>
         /\ retry.outcome = Some([kind |-> "raise", exc |-> "ValueError", invocation |-> 0])
    /\ retry.attempts >= 1 =>
         /\ n <= retry.attempts
         /\ \A i \in 1..(n - 1) : ~Stops(retry, retry.invocations[i])
         /\ IsNull(retry.outcome) =>
              /\ n < retry.attempts
              /\ Len(retry.sleeps) = n
              /\ \A i \in 1..n : ~Stops(retry, retry.invocations[i])
         /\ ~IsNull(retry.outcome) =>
              /\ n >= 1
              /\ Stops(retry, retry.invocations[n]) \/ n = retry.attempts
              /\ Len(retry.sleeps) = n - 1

\* a loop with budget 4 that slept once after a retryable error and gave up at
\* once on the non-retryable error of its second invocation
C21_Witness ==
    /\ retry.attempts = 4
    /\ retry.invocations = <<"ServerError", "Exception">>
    /\ Len(retry.sleeps) = 1
    /\ ~IsNull(retry.outcome)
    /\ retry.outcome[1].kind = "raise"

\* C22: when the retrier gives up, the error it raises is the very error of the
\* last invocation (same class, raised by that invocation, not by an earlier
\* one); when an invocation succeeds the retrier returns that invocation's result.
C22_OutcomeIsLastInvocation ==
    (~IsNull(retry.outcome) /\ retry.attempts >= 1) =>
        LET n == Len(retry.invocations)
            o == retry.outcome[1] IN
        /\ o.invocation = n
        /\ (o.kind = "return") <=> (retry.invocations[n] = "ok")
        /\ o.kind = "return" => IsNull(retry.last_exc)
        /\ o.kind = "raise" =>
             /\ o.exc = retry.invocations[n]
             /\ retry.last_exc = Some([class |-> retry.invocations[n], invocation |-> n])

\* a loop that gave up on its second invocation, whose error differs from the
\* first one's
C22_Witness ==
    /\ retry.attempts = 2
    /\ retry.invocations = <<"ServerError", "ClientError">>
    /\ ~IsNull(retry.outcome)
    /\ retry.outcome[1] = [kind |-> "raise", exc |-> "ClientError", invocation |-> 2]

\* the failures that calling again cannot cure: a 4xx response for an invalid
\* request or a rejected API key (the ClientError drawn here), and errors that
\* do not come from the remote API
PermanentFailures == {"ClientError", "Exception"}

\* C23: a loop guarded by is_retryable_gemini_error invokes the operation exactly
\* once when that invocation fails permanently (validation or authentication
\* failure of the remote API, or a non-API error).
C23_PermanentFailureAttemptedOnce ==
    ( /\ retry.should_retry = Some([exc \in ExcClasses |-> IsRetryableGeminiError(exc)])
      /\ Len(retry.invocations) >= 1
      /\ retry.invocations[1] \in PermanentFailures )
    => Len(retry.invocations) = 1

\* the thread of the event loop is in the time.sleep of a backoff: an embedding
\* attempt failed retryably and the next attempt has not begun
InBackoffSleep ==
    /\ ~IsNull(retry)
    /\ IsNull(retry.outcome)
    /\ Len(retry.sleeps) >= 1
    /\ Len(retry.sleeps) = Len(retry.invocations)

\* C24: while one job sleeps in the backoff of a retried embedding call, every
\* other unfinished pipeline run and every enqueue call in flight can take its
\* next step.
C24_BackoffSleepDoesNotBlock ==
    InBackoffSleep =>
        /\ \A t \in TaskIds :
              (t # retry.task /\ ~Ended(t)) =>
                  ENABLED (LoopRunStep(t) \/ QueryEnter(t))
        /\ \A c \in Callers :
              calls[c].pc # "idle" => ENABLED LoopEnqStep(c)

\* a pipeline run in progress: its task has not ended and its job is processing
InProgress(t) ==
    /\ ~Ended(t)
    /\ HasRow(tasks[t].job_id)
    /\ jobs[tasks[t].job_id][1].status = processing

\* C25: the number of pipeline runs in progress never exceeds the size of the
\* worker pool of the queue.
C25_RunsWithinWorkerPool ==
    Cardinality({ t \in TaskIds : InProgress(t) }) <= executor.max_workers

\* the components and the call of the aggregator that the state is about
AggComponents ==
    IF aggregate.aggregator = "cv" THEN CvComponents ELSE ProjectComponents

AggCall(scored) ==
    IF aggregate.aggregator = "cv"
    THEN CvMatchRateCall(scored)
    ELSE ProjectScoreCall(scored)

\* the aggregator has been called
Aggregated == ~IsNull(aggregate) /\ ~IsNull(aggregate.result)

\* a raw value float() turns into a number; a raw weight that is zero or absent,
\* and one that is zero, negative or absent
IsNumber(value) == ~IsNull(value) /\ value # HugeInt
AbsentOrZero(weight) == IsNull(weight) \/ (IsNumber(weight) /\ weight[1] = 0)
NotPositive(weight) == IsNull(weight) \/ (IsNumber(weight) /\ weight[1] <= 0)

\* no score and no weight of the dictionary is an int beyond float range
NoHugeInt(scored) ==
    \A d \in DOMAIN scored.scores :
        scored.scores[d] # HugeInt /\ scored.weights[d] # HugeInt

\* the three cases of C26 for the call the state holds
EdgeCases(scored, result) ==
    /\ ( /\ aggregate.aggregator = "cv"
         /\ \A d \in DOMAIN scored.scores :
                scored.scores[d] = Some(500) /\ scored.weights[d] = Some(2500) )
       => result = AggregatorReturns(1000)
    /\ ( /\ aggregate.aggregator = "cv"
         /\ \A d \in DOMAIN scored.scores : scored.scores[d] = Some(0) )
       => result = AggregatorReturns(0)
    /\ (\A d \in DOMAIN scored.weights : AbsentOrZero(scored.weights[d]))
       => result = AggregatorReturns(0)

\* C26: the CV aggregator returns 1.0 for four scores of 5 with weights 25 each
\* and 0.0 when all scores are zero; either aggregator returns 0.0, whatever the
\* scores, when every weight is absent or zero.
C26_AggregatorEdgeCases ==
    Aggregated => EdgeCases(aggregate.scored, aggregate.result[1])

\* the cases of C26 hold for every dictionary without an int beyond float range
C26_EdgeCasesOfFloats ==
    (Aggregated /\ NoHugeInt(aggregate.scored))
        => EdgeCases(aggregate.scored, aggregate.result[1])

\* the one weighted component of a dictionary, if it has exactly one
WeightedComponents(scored) ==
    { d \in DOMAIN scored.weights : ~NotPositive(scored.weights[d]) }

\* C27: when exactly one dimension carries a weight, the weight 50 (percentage)
\* and the weight 0.5 (fraction) give the same output of the aggregator, for
\* every score, in the CV and in the project aggregator.
C27_PercentageEqualsFraction ==
    Aggregated =>
        \A d \in DOMAIN aggregate.scored.weights :
            ( /\ WeightedComponents(aggregate.scored) = {d}
              /\ aggregate.scored.weights[d] \in {Some(50), Some(5000)} )
            => /\ AggCall([aggregate.scored EXCEPT !.weights[d] = Some(50)])
                    = aggregate.result[1]
               /\ AggCall([aggregate.scored EXCEPT !.weights[d] = Some(5000)])
                    = aggregate.result[1]

\* the CV aggregator called with the only weight 50 on a dimension that scores 3:
\* it returns 0.2 * 3.0
C27_Witness ==
    /\ Aggregated
    /\ aggregate.aggregator = "cv"
    /\ WeightedComponents(aggregate.scored) = {"experience_level"}
    /\ aggregate.scored.weights["experience_level"] = Some(5000)
    /\ aggregate.scored.scores["experience_level"] = Some(300)
    /\ aggregate.result[1] = AggregatorReturns(600)

\* changing the score of any dimension without a positive weight to a score of
\* the set leaves the outcome of the call as it is
ExcludedScoreIsIgnored(score_values) ==
    \A d \in DOMAIN aggregate.scored.weights :
        NotPositive(aggregate.scored.weights[d]) =>
            \A s \in score_values :
                AggCall([aggregate.scored EXCEPT !.scores[d] = s]) = aggregate.result[1]

\* C28: a dimension whose weight is zero, negative or missing is left out of the
\* weighted sum and of the total weight: whatever its score is changed to, the
\* aggregator gives the same value.
C28_UnweightedDimensionIsExcluded ==
    Aggregated => ExcludedScoreIsIgnored(AggScores)

\* C28 holds for every score that is not an int beyond float range
C28_ExcludedAmongFloats ==
    (Aggregated /\ NoHugeInt(aggregate.scored))
        => ExcludedScoreIsIgnored(AggScores \ {HugeInt})

\* the dictionary with every score that is not a number replaced by 0
ScoresCoerced(scored) ==
    [scored EXCEPT !.scores =
        [d \in DOMAIN scored.scores |->
            IF IsNumber(scored.scores[d]) THEN scored.scores[d] ELSE Some(0)]]

\* C29: no call of an aggregator raises, and a score that is missing or cannot be
\* turned into a number counts as 0: the call gives what it gives for the same
\* dictionary with that score replaced by 0.
C29_AggregatorNeverRaises ==
    Aggregated =>
        /\ aggregate.result[1].kind = "return"
        /\ aggregate.result[1] = AggCall(ScoresCoerced(aggregate.scored))

\* a missing or non-numeric score (float() raising TypeError or ValueError)
\* counts as 0
C29_MissingScoreCountsAsZero ==
    (Aggregated /\ NoHugeInt(aggregate.scored)) =>
        /\ aggregate.result[1].kind = "return"
        /\ aggregate.result[1] = AggCall(ScoresCoerced(aggregate.scored))

\* the columns of table jobs and of table evaluation_results that an update
\* may write
JobColumns ==
    { "job_title", "cv_file_id", "report_file_id", "status", "stage",
      "error_message", "created_at", "updated_at" }

\* the columns a call of update_job supplies
SuppliedJobColumns(status, stage, error_message) ==
    (IF IsNull(status) THEN {} ELSE {"status"})
    \cup (IF stage = UNSET THEN {} ELSE {"stage"})
    \cup (IF error_message = UNSET THEN {} ELSE {"error_message"})

\* the step wrote no job column outside allowed in the rows of job_id, left the
\* rows of other ids and table evaluation_results alone and created no row
UpdateJobTouchesOnly(job_id, allowed) ==
    /\ results' = results
    /\ \A k \in JobIds \ {job_id} : jobs'[k] = jobs[k]
    /\ Len(jobs'[job_id]) = Len(jobs[job_id])
    /\ \A i \in 1..Len(jobs[job_id]) :
          \A c \in JobColumns \ allowed : jobs'[job_id][i][c] = jobs[job_id][i][c]

\* likewise for update_eval_result
UpdateEvalResultTouchesOnly(job_id, allowed) ==
    /\ jobs' = jobs
    /\ \A k \in JobIds \ {job_id} : results'[k] = results[k]
    /\ Len(results'[job_id]) = Len(results[job_id])
    /\ \A i \in 1..Len(results[job_id]) :
          \A c \in ResultFields \ allowed :
              results'[job_id][i][c] = results[job_id][i][c]

\* every update_job step writes its supplied columns and those of always, every
\* update_eval_result step its assigned columns, and nothing else
UpdatesArePatches(always) ==
    /\ \A j \in JobIds : \A status \in UpdateJobStatusArgs :
          \A stage \in UpdateJobStageArgs : \A error_message \in UpdateJobErrorArgs :
              RepoUpdateJob(j, status, stage, error_message) =>
                  UpdateJobTouchesOnly(j,
                      SuppliedJobColumns(status, stage, error_message) \cup always)
    /\ \A j \in JobIds : \A patch \in SnapshotPatches :
          RepoUpdateEvalResult(j, patch) =>
              UpdateEvalResultTouchesOnly(j, DOMAIN patch)

\* C30 as stated: a partial update changes only the supplied fields (update_job
\* with only a stage leaves status and error_message, update_job without a
\* status leaves status, update_eval_result with one snapshot assignment leaves
\* every other column) and creates no row when the keyed row does not exist.
C30_UpdateChangesOnlySuppliedFields ==
    [][ UpdatesArePatches({}) ]_vars

\* C30 amended: a partial update changes only the supplied fields and, for
\* update_job, the updated_at timestamp of the job; it creates no row when the
\* keyed row does not exist.
C30_UpdateChangesSuppliedFieldsAndTimestamp ==
    [][ /\ UpdatesArePatches({"updated_at"})
        /\ \A j \in JobIds : \A i \in 1..Len(jobs[j]) :
              (Len(jobs'[j]) = Len(jobs[j]) /\ jobs'[j][i] # jobs[j][i])
                  => jobs'[j][i].updated_at > jobs[j][i].updated_at ]_vars

\* a job row patched twice, once with status failed and an error message and once
\* with a stage only: each update left what the other had written
C30_Witness ==
    \E j \in JobIds :
        /\ Len(jobs[j]) = 1
        /\ jobs[j][1].status = failed
        /\ jobs[j][1].error_message = Some("boom")
        /\ jobs[j][1].stage = Some("cv_ingest")
        /\ jobs[j][1].updated_at = 2
        /\ jobs[j][1].created_at = 0

\* C31: in every reachable state a job that has a row (queued included) has
\* exactly one EvaluationResult row, and no EvaluationResult row exists without
\* its job.
C31_OneResultRowPerJob ==
    \A j \in JobIds :
        /\ HasRow(j) => Len(results[j]) = 1
        /\ Len(results[j]) > 0 => HasRow(j)

\* the part of C31 that the run keeps: never more than one EvaluationResult row
\* per job, and none without its job
C31_AtMostOneResultRow ==
    \A j \in JobIds :
        /\ Len(results[j]) <= 1
        /\ Len(results[j]) > 0 => HasRow(j)

----------------------------------------------------------------------------
(* Two evaluations side by side: one client sends requests for two different
   identities one after another, their runs interleave with each other, with
   later requests and with status queries; every call of a run may fail *)

InitPair ==
    /\ storage = "StorageWithExists"
    /\ files = FileIds
    /\ jobs = [j \in JobIds |-> <<>>]
    /\ results = [j \in JobIds |-> <<>>]
    /\ tasks = <<>>
    /\ calls = [c \in Callers |-> IdleCall]
    /\ ret = NoRet
    /\ retry = NULL
    /\ executor = NewExecutor(DefaultMaxWorkers)
    /\ collection = {}
    /\ aggregate = NULL

\* a step of an enqueue call of the client
PairEnqStep(c) ==
    \/ \E payload \in LoopPayloads : EnqStart(c, payload)
    \/ EnqGetStatus(c)
    \/ EnqExistsCv(c)
    \/ EnqExistsReport(c)
    \/ EnqCreateJob(c)
    \/ EnqIntegrityGetStatus(c)
    \/ EnqSubmit(c)

\* a step of run t; a call that fails raises a plain Exception on its one attempt
PairRunStep(t) ==
    /\ RunStep(t)
    /\ tasks'[t].pc = "except" =>
            tasks'[t].exc_info = Some([class |-> "Exception", attempts |-> 1])

\* between two enqueue calls the client asks for the status of a job
PairGetStatus(c, job_id) ==
    /\ calls[c].pc = "idle"
    /\ EvalServiceGetStatus(job_id)

NextPair ==
    \/ \E c \in Callers : c = 1 /\ PairEnqStep(c)
    \/ \E t \in TaskIds : PairRunStep(t)
    \/ \E c \in Callers : \E j \in JobIds : c = 1 /\ PairGetStatus(c, j)

SpecPair == InitPair /\ [][NextPair]_vars

\* the step is one of the run of identity j
RunSteps(j) ==
    \E t \in DOMAIN tasks : tasks[t].job_id = j /\ tasks'[t] # tasks[t]

\* the step leaves every row keyed by j as it was (a row may be added after them)
ExistingRowsKept(T, j) ==
    /\ Len(T'[j]) >= Len(T[j])
    /\ \A i \in 1..Len(T[j]) : T'[j][i] = T[j][i]

\* C32: the Job and EvaluationResult rows of an identity are changed only by a
\* step of that identity's own run: a step of the run of another identity, of an
\* enqueue call or of a status query leaves every existing row of the identity
\* unchanged and gives it no EvaluationResult row, in every interleaving.
C32_RowsChangedOnlyByOwnRun ==
    [][ \A j \in JobIds :
            ~RunSteps(j) =>
                /\ ExistingRowsKept(jobs, j)
                /\ results'[j] = results[j] ]_vars

\* two identities with rows that the two runs have taken to different places:
\* one job completed with its final fields, the other failed with a snapshot
C32_Witness ==
    \E j, k \in JobIds :
        /\ j # k
        /\ HasRow(j) /\ jobs[j][1].status = completed
        /\ Len(results[j]) = 1 /\ ~IsNull(results[j][1].overall_summary)
        /\ HasRow(k) /\ jobs[k][1].status = failed
        /\ Len(results[k]) = 1 /\ ~IsNull(results[k][1].raw_cv_json)
        /\ IsNull(results[k][1].overall_summary)

\* the five values run t holds for the final fields once it has its summary
FinalValuesOf(t) ==
    [ cv_match_rate |-> tasks[t].scored_resume[1].cv_match_rate,
      cv_feedback |-> tasks[t].scored_resume[1].cv_feedback,
      project_score |-> tasks[t].scored_project_report[1].project_score,
      project_feedback |-> tasks[t].scored_project_report[1].project_feedback,
      overall_summary |-> tasks[t].overall_summary ]

\* the awaits of a run that follow _persist_candidate_overall_summary
AfterPersistFinalPcs == { "update_job_completed", "except", "done", "crashed" }

\* none of the final fields of the row has been written
NoFinalFieldWritten(row) == \A f \in FinalFields : IsNull(row[f])

\* all five final fields of the row hold what the one final update of a run of j
\* assigned to them
AllFinalFieldsWritten(j, row) ==
    \E t \in TasksOf(j) :
        /\ tasks[t].pc \in AfterPersistFinalPcs
        /\ ~IsNull(tasks[t].overall_summary)
        /\ \A f \in FinalFields : row[f] = FinalValuesOf(t)[f]

\* C33: the five final fields are written by one update and by nothing else: in
\* every reachable state the EvaluationResult row of a job has none of them
\* written or holds all five values of its run's final update, and the only
\* step that changes any of them is that update (the step of the run at
\* _persist_candidate_overall_summary).
C33_FinalFieldsWrittenTogether ==
    /\ [](\A j \in JobIds : \A i \in 1..Len(results[j]) :
            \/ NoFinalFieldWritten(results[j][i])
            \/ AllFinalFieldsWritten(j, results[j][i]))
    /\ [][ \A j \in JobIds : \A i \in 1..Len(results[j]) :
            (\E f \in FinalFields :
                Len(results'[j]) < i \/ results'[j][i][f] # results[j][i][f])
            => \E t \in TasksOf(j) :
                    /\ tasks[t].pc = "persist_final"
                    /\ tasks'[t].pc = "update_job_completed" ]_vars

\* the final update has been made and the job is not yet marked completed: the
\* row holds the five values, a NULL feedback of the scorer among them
C33_Witness ==
    \E t \in DOMAIN tasks :
        /\ tasks[t].pc = "update_job_completed"
        /\ Len(results[tasks[t].job_id]) = 1
        /\ LET row == results[tasks[t].job_id][1] IN
            /\ ~IsNull(row.cv_match_rate) /\ ~IsNull(row.project_score)
            /\ ~IsNull(row.overall_summary)
            /\ IsNull(row.cv_feedback)

\* C34: for a completed job the final cv_match_rate is the output of the
\* aggregator on the scores and weights the scorer returned and is the
\* cv_match_rate of the raw CV-scoring snapshot, whatever cv_match_rate the scorer
\* returned itself; likewise the final project_score, the project aggregator and
\* the raw project-scoring snapshot.
C34_FinalScoresAreAggregated ==
    \A j \in JobIds :
        (HasRow(j) /\ jobs[j][1].status = completed) =>
            /\ Len(results[j]) = 1
            /\ LET row == results[j][1] IN
                /\ ~IsNull(row.raw_resume_score_json)
                /\ ~IsNull(row.raw_project_score_json)
                /\ row.cv_match_rate = row.raw_resume_score_json[1].cv_match_rate
                /\ row.project_score = row.raw_project_score_json[1].project_score
                /\ \E out \in ScoreResumeOutputs :
                    /\ out.scores = row.raw_resume_score_json[1].scores
                    /\ out.weights = row.raw_resume_score_json[1].weights
                    /\ row.cv_match_rate = Some(CalculateCvMatchRate(out))
                /\ \E out \in ScoreProjectOutputs :
                    /\ out.scores = row.raw_project_score_json[1].scores
                    /\ out.weights = row.raw_project_score_json[1].weights
                    /\ row.project_score = Some(CalculateProjectScore(out))

\* a completed job whose final scores differ from the ones the scorers returned
C34_Witness ==
    \E j \in JobIds :
        /\ HasRow(j) /\ jobs[j][1].status = completed
        /\ Len(results[j]) = 1
        /\ \A out \in ScoreResumeOutputs :
                results[j][1].cv_match_rate # out.cv_match_rate
        /\ \A out \in ScoreProjectOutputs :
                results[j][1].project_score # out.project_score

\* the stage labels _process_job writes
Stages == { "cv_ingest", "cv_extract", "cv_scoring", "report_extract", "report_scoring" }

\* C35: in every reachable state the stage of a job is non-null exactly when its
\* status is processing, and is then one of cv_ingest, cv_extract, cv_scoring,
\* report_extract, report_scoring; its error_message is non-null only when its
\* status is failed.
C35_StageAndErrorFollowStatus ==
    \A j \in JobIds : \A i \in 1..Len(jobs[j]) :
        LET row == jobs[j][i] IN
        /\ ~IsNull(row.stage) <=> row.status = processing
        /\ ~IsNull(row.stage) => row.stage[1] \in Stages
        /\ ~IsNull(row.error_message) => row.status = failed

\* a run that failed in the report branch: the row is failed with a message and
\* without a stage, after it was processing at report_scoring
C35_Witness ==
    \E t \in DOMAIN tasks :
        /\ tasks[t].pc = "done"
        /\ Len(results[tasks[t].job_id]) = 1
        /\ ~IsNull(results[tasks[t].job_id][1].raw_project_json)
        /\ LET row == jobs[tasks[t].job_id][1] IN
            /\ row.status = failed
            /\ IsNull(row.stage)
            /\ ~IsNull(row.error_message)

----------------------------------------------------------------------------
(* The process that holds the event loop may die and be started again.  The
   runs are tasks of that loop (InProcessQueue.submit) and the enqueue calls are
   coroutines of it: they die with the process.  The tables and the documents
   are on disk and stay.  Startup (lifespan, init_db) creates missing tables and
   touches no row. *)

\* a restart that marks the jobs it finds processing as failed
ProcessDiesAndRecovers ==
    /\ tasks' = <<>>
    /\ calls' = [c \in Callers |-> IdleCall]
    /\ ret' = NoRet
    /\ executor' = NewExecutor(DefaultMaxWorkers)
    /\ jobs' = [j \in JobIds |->
                  [i \in DOMAIN jobs[j] |->
                      IF jobs[j][i].status = processing
                      THEN PatchJobRow(jobs[j][i], Some(failed), NULL, Some("boom"))
                      ELSE jobs[j][i]]]
    /\ UNCHANGED <<aggregate, collection, retry, storage, files, results>>

\* the process dies and is started again: no task, no call in progress
ProcessDies ==
    /\ tasks' = <<>>
    /\ calls' = [c \in Callers |-> IdleCall]
    /\ ret' = NoRet
    /\ executor' = NewExecutor(DefaultMaxWorkers)
    /\ UNCHANGED <<aggregate, collection, retry, storage, files, jobs, results>>

NextCrash ==
    \/ \E c \in ReaderCallers : EnqStep(c)
    \/ \E t \in TaskIds : RunStep(t)
    \/ \E f \in FileIds : Upload(f)
    \/ ProcessDies

SpecCrash == Init /\ [][NextCrash]_vars

\* the run of job j is in flight: the row is processing and a task of j has not
\* ended
InFlight(j) ==
    /\ HasRow(j)
    /\ jobs[j][1].status = processing
    /\ \E t \in TasksOf(j) : ~Ended(t)

\* job j is processing and the process that ran it has died: the event loop of
\* the present process holds no task of j (a task of j is only ever removed by
\* the death of the process, and with it every enqueue call then in progress)
Orphaned(j) ==
    /\ HasRow(j)
    /\ jobs[j][1].status = processing
    /\ TasksOf(j) = {}

\* C36: when the process dies while the run of a job is in flight, the job is
\* left processing, and it remains processing forever: no later step changes its
\* row or starts a new run of it, and every enqueue call of the same request
\* made after the death returns the job's id with status processing.
C36_OrphanedJobStaysProcessing ==
    [][ \A j \in JobIds :
            /\ (InFlight(j) /\ TasksOf(j)' = {}) => Orphaned(j)'
            /\ Orphaned(j) =>
                /\ Orphaned(j)'
                /\ jobs'[j] = jobs[j]
                /\ \A c \in Callers :
                        ( /\ calls[c].pc # "idle"
                          /\ calls[c].job_id = j
                          /\ calls'[c].pc = "idle"
                          /\ ret'.kind # "none" )
                        => ret' = Response(c, j, processing) ]_vars

\* the process died during a run, and a later enqueue of the same request has
\* just returned processing
C36_Witness ==
    \E j \in JobIds :
        /\ tasks = <<>>
        /\ HasRow(j)
        /\ jobs[j][1].status = processing
        /\ jobs[j][1].stage = Some("cv_scoring")
        /\ ret.kind = "response"
        /\ ret.id = j
        /\ ret.status = processing

\* a raw weight that is an integer percentage, 0 to 100
IsPercentage(weight) ==
    IsNumber(weight) /\ weight[1] >= 0 /\ weight[1] <= 10000 /\ weight[1] % 100 = 0

\* the same dictionary with every percentage weight divided by 100
InFractionForm(scored) ==
    [scored EXCEPT !.weights = [d \in DOMAIN @ |-> Some(@[d][1] \div 100)]]

\* every weight is a percentage, at least two dimensions carry one above 0, and
\* no weight is one of those set apart
MultiDimensionPercentages(scored, apart) ==
    /\ \A d \in DOMAIN scored.weights :
            IsPercentage(scored.weights[d]) /\ scored.weights[d] \notin apart
    /\ Cardinality(WeightedComponents(scored)) >= 2

\* C37: for every input with several weighted dimensions, all weights given as
\* integer percentages (0 to 100) give the same output of the aggregator as the
\* same weights given as fractions (each divided by 100), a percentage weight of
\* 1 included.
C37_PercentagesEqualFractions ==
    (Aggregated /\ MultiDimensionPercentages(aggregate.scored, {}))
        => AggCall(InFractionForm(aggregate.scored)) = aggregate.result[1]

\* the same for the inputs none of whose weights is the percentage 1
C37_PercentagesAboveOneEqualFractions ==
    (Aggregated /\ MultiDimensionPercentages(aggregate.scored, {Some(100)}))
        => AggCall(InFractionForm(aggregate.scored)) = aggregate.result[1]

\* percentages 25 and 50 on dimensions with different scores, aggregated
C37_AboveOneWitness ==
    /\ Aggregated
    /\ MultiDimensionPercentages(aggregate.scored, {Some(100)})
    /\ \E d, g \in DOMAIN aggregate.scored.weights :
            /\ aggregate.scored.weights[d] = Some(2500)
            /\ aggregate.scored.weights[g] = Some(5000)
            /\ aggregate.scored.scores[d] = Some(300)
            /\ aggregate.scored.scores[g] = Some(500)

----------------------------------------------------------------------------
(* Progress.  The event loop runs every task it holds: a run that is at an await
   takes its next step once the awaited call has returned or raised, and every
   call does one or the other. *)

\* the places of the task list: at most one run per identity is ever submitted
TaskSlots == 1..Cardinality(JobIds)

TaskRuns(t) == t \in DOMAIN tasks /\ RunStep(t)

SpecFair == Init /\ [][Next]_vars /\ \A t \in TaskSlots : WF_vars(TaskRuns(t))

\* a run of job j has been submitted
Admitted(j) == TasksOf(j) # {}

\* C38: when every collaborator call and persistence operation returns or
\* raises and the queue runs every submitted task, every admitted job eventually
\* has status completed or failed.
C38_AdmittedJobTerminates ==
    \A j \in JobIds : Admitted(j) ~> Terminal(j)

\* what the run guarantees: an admitted job eventually is completed or failed, or
\* its run has ended in the handler, whose own update_job raised
C38_TerminatesUnlessHandlerRaises ==
    \A j \in JobIds :
        Admitted(j) ~> (Terminal(j) \/ \E t \in TasksOf(j) : tasks[t].pc = "crashed")

----------------------------------------------------------------------------
(* async_retry and sync_retry side by side: the two loops are given the same
   arguments, and each invocation of the operation does the same thing in both
   (it returns, or raises an exception of the same class) with the same jitter
   draw *)

\* await asyncio.sleep(sleep_for): a delay of 0 or less yields once and returns
AsyncioSleepRaises(sleep_for) == FALSE

\* time.sleep(sleep_for): ValueError for a negative delay
TimeSleepRaises(sleep_for) == sleep_for < 0

\* one iteration of the loop of async_retry
AsyncRetryIteration(r, result, u) ==
    LET exc == [class |-> result, invocation |-> r.attempt]
        sleep_for == ComputeSleep(r.attempt, r.base_delay, r.max_delay, r.jitter, u)
    IN
    IF result = "ok"
    THEN [r EXCEPT !.invocations = Append(@, result),
                   !.outcome = Some([kind |-> "return", exc |-> "none",
                                     invocation |-> r.attempt])]
    ELSE IF ~RetryAllowed(r, result) \/ r.attempt = r.attempts
    THEN [r EXCEPT !.invocations = Append(@, result),
                   !.last_exc = Some(exc),
                   !.outcome = Some([kind |-> "raise", exc |-> exc.class,
                                     invocation |-> exc.invocation])]
    ELSE IF AsyncioSleepRaises(sleep_for)
    THEN [r EXCEPT !.invocations = Append(@, result),
                   !.sleeps = Append(@, sleep_for),
                   !.outcome = Some([kind |-> "raise", exc |-> "ValueError",
                                     invocation |-> 0])]
    ELSE [r EXCEPT !.invocations = Append(@, result),
                   !.sleeps = Append(@, sleep_for),
                   !.attempt = @ + 1]

\* one iteration of the loop of sync_retry
SyncRetryIteration(r, result, u) ==
    LET exc == [class |-> result, invocation |-> r.attempt]
        sleep_for == ComputeSleep(r.attempt, r.base_delay, r.max_delay, r.jitter, u)
    IN
    IF result = "ok"
    THEN [r EXCEPT !.invocations = Append(@, result),
                   !.outcome = Some([kind |-> "return", exc |-> "none",
                                     invocation |-> r.attempt])]
    ELSE IF ~RetryAllowed(r, result) \/ r.attempt = r.attempts
    THEN [r EXCEPT !.invocations = Append(@, result),
                   !.last_exc = Some(exc),
                   !.outcome = Some([kind |-> "raise", exc |-> exc.class,
                                     invocation |-> exc.invocation])]
    ELSE IF TimeSleepRaises(sleep_for)
    THEN [r EXCEPT !.invocations = Append(@, result),
                   !.sleeps = Append(@, sleep_for),
                   !.outcome = Some([kind |-> "raise", exc |-> "ValueError",
                                     invocation |-> 0])]
    ELSE [r EXCEPT !.invocations = Append(@, result),
                   !.sleeps = Append(@, sleep_for),
                   !.attempt = @ + 1]

\* the two loops are entered with the same arguments
InitRetryBoth ==
    /\ storage = "LocalStorage"
    /\ files = {}
    /\ jobs = [j \in JobIds |-> <<>>]
    /\ results = [j \in JobIds |-> <<>>]
    /\ tasks = <<>>
    /\ calls = [c \in Callers |-> IdleCall]
    /\ ret = NoRet
    /\ retry \in { [async |-> c, sync |-> c] : c \in RetryCalls }
    /\ executor = NewExecutor(DefaultMaxWorkers)
    /\ collection = {}
    /\ aggregate = NULL

\* the next invocation of the operation, in each loop that is still running
BothIterate(result, u) ==
    /\ IsNull(retry.async.outcome) \/ IsNull(retry.sync.outcome)
    /\ retry' =
          [ async |-> IF IsNull(retry.async.outcome)
                      THEN AsyncRetryIteration(retry.async, result, u)
                      ELSE retry.async,
            sync |-> IF IsNull(retry.sync.outcome)
                     THEN SyncRetryIteration(retry.sync, result, u)
                     ELSE retry.sync ]
    /\ UNCHANGED <<aggregate, collection, executor, storage, files, jobs, results, tasks, calls, ret>>

\* the operation returns
BothOperationReturns == BothIterate("ok", 0)

\* the operation raises an exception of class exc; u is the jitter draw
BothOperationRaises(exc, u) == BothIterate(exc, u)

NextRetryBoth ==
    \/ BothOperationReturns
    \/ \E exc \in ExcClasses : \E u \in 0..retry.async.jitter :
            BothOperationRaises(exc, u)

SpecRetryBoth == InitRetryBoth /\ [][NextRetryBoth]_vars

----------------------------------------------------------------------------
(* The vector store: the Chroma collection "ground_truth", filled by
   seed_internal_documents and ChromaDBVectorStore.upsert and read by
   ChromaDBVectorStore.query.  A chunk is its id, its text and its metadata.
   Which chunks are nearest to a query text is up to the embeddings: any ranking
   of the stored chunks may come back. *)

\* the most chunks chunk_text cuts a document into
MaxChunks == 2

\* seed_docs.DEFAULT_DOC_ID
DefaultDocId == "case_study_brief"

DocIds == { DefaultDocId, "job_description" }

\* values of uuid.uuid4().hex[:8]
Uuids == { "u1", "u2" }

\* the top_k the callers pass: 1 (the test), 2 (_process_cv, _process_project_report)
TopKs == { 1, 2 }

\* the chunk seed_internal_documents stores for the idx-th piece of a document:
\* id f"{doc_id}-{uuid}-{idx}", metadata doc_id, kind = doc_id, ordinal
SeededChunk(doc_id, uuid, idx) ==
    [ chunk_id |-> <<doc_id, uuid, idx>>,
      text |-> <<"chunk", doc_id, idx>>,
      metadata |-> [doc_id |-> doc_id, kind |-> doc_id, ord |-> idx] ]

\* the chunk ChromaDBVectorStore.upsert stores for chunks[i]: id f"{doc_id}:{i}"
UpsertedChunk(doc_id, kind, i) ==
    [ chunk_id |-> <<doc_id, i>>,
      text |-> <<"chunk", doc_id, i>>,
      metadata |-> [doc_id |-> doc_id, kind |-> kind, ord |-> i] ]

\* collection.get(where={"doc_id": doc_id})
ChunksOfDoc(C, doc_id) == { c \in C : c.metadata.doc_id = doc_id }

\* collection.upsert(ids, documents, metadatas): a chunk with a stored id
\* replaces the stored one
CollectionUpsert(C, chunks) ==
    { c \in C : \A n \in chunks : n.chunk_id # c.chunk_id } \cup chunks

\* a query that hands back every stored chunk, whatever n_results is
CollectionQueryIgnoresLimit(C, n_results) ==
    { s \in [1..Cardinality(C) -> C] :
        \A i, j \in 1..Cardinality(C) : i # j => s[i] # s[j] }

\* collection.query(query_texts=[query], n_results=top_k): the n_results nearest
\* chunks, nearest first, all of them when fewer are stored
CollectionQuery(C, n_results) ==
    LET n == Min(n_results, Cardinality(C)) IN
    { s \in [1..n -> C] : \A i, j \in 1..n : i # j => s[i] # s[j] }

\* the collection embeds texts through GeminiEmbeddingFunction: the call fails
\* when its retry loop gives up
EmbeddingFails == \E r \in EmbeddingRetryRuns : r.kind = "raise"

\* seed_internal_documents(brief_pdf, doc_id): the chunks stored under doc_id are
\* deleted and the n chunks of the document are upserted, or the upsert fails
\* in the embedding after the delete
SeedInternalDocuments(doc_id, n) ==
    /\ \E uuids \in [0..(n - 1) -> Uuids] :
          LET remaining == collection \ ChunksOfDoc(collection, doc_id)
              chunks == { SeededChunk(doc_id, uuids[idx], idx) : idx \in 0..(n - 1) }
          IN  \/ collection' = CollectionUpsert(remaining, chunks)
              \/ EmbeddingFails /\ collection' = remaining
    /\ ret' = NoRet
    /\ UNCHANGED <<aggregate, executor, retry, storage, files, jobs, results, tasks, calls>>

\* ChromaDBVectorStore.upsert(doc_id, chunks): collection.add of n chunks; an id
\* that is already stored makes add fail or is skipped, as the library decides
VectorStoreUpsert(doc_id, kind, n) ==
    /\ LET chunks == { UpsertedChunk(doc_id, kind, i) : i \in 0..(n - 1) }
           stored == { c \in chunks : \E o \in collection : o.chunk_id = c.chunk_id }
       IN  \/ stored = {} /\ collection' = collection \cup chunks
           \/ stored # {} /\ collection' = collection \cup (chunks \ stored)
           \/ (stored # {} \/ EmbeddingFails) /\ collection' = collection
    /\ ret' = NoRet
    /\ UNCHANGED <<aggregate, executor, retry, storage, files, jobs, results, tasks, calls>>

\* ChromaDBVectorStore.query(query, top_k): one dict per hit, with the chunk_id,
\* text and metadata of the hit (the score, 1.0 - distance, is left out: nothing
\* reads it); or the embedding of the query text fails
VectorStoreQueryCall(top_k) ==
    /\ \/ \E hits \in CollectionQuery(collection, top_k) :
            ret' = [ kind |-> "chunks", top_k |-> top_k,
                     chunks |-> [i \in 1..Len(hits) |->
                                    [ chunk_id |-> hits[i].chunk_id,
                                      text |-> hits[i].text,
                                      metadata |-> hits[i].metadata ]] ]
       \/ EmbeddingFails /\ ret' = [kind |-> "query_raise", top_k |-> top_k]
    /\ UNCHANGED <<aggregate, collection, executor, retry, storage, files, jobs, results, tasks, calls>>

NextVectorStore ==
    \/ \E doc_id \in DocIds : \E n \in 1..MaxChunks : SeedInternalDocuments(doc_id, n)
    \/ \E doc_id \in DocIds : VectorStoreUpsert(doc_id, "rubric", 1)
    \/ \E top_k \in TopKs : VectorStoreQueryCall(top_k)

SpecVectorStore == Init /\ [][NextVectorStore]_vars

\* the collection holds the brief seeded under the default doc id, and only it
OnlySeededBrief ==
    /\ collection # {}
    /\ \A c \in collection :
            \E u \in Uuids : \E idx \in 0..(MaxChunks - 1) :
                c = SeededChunk(DefaultDocId, u, idx)

\* C40: query(q, top_k = k) returns at most k chunks, and exactly k when the
\* collection holds at least k; every returned chunk carries the chunk_id, text
\* and metadata of a stored chunk; so when the collection holds the brief seeded
\* under the default doc id, a query with top_k = 1 returns exactly one chunk,
\* whose doc_id and kind are both "case_study_brief".
C40_QueryReturnsStoredChunks ==
    ret.kind = "chunks" =>
        /\ Len(ret.chunks) <= ret.top_k
        /\ Cardinality(collection) >= ret.top_k => Len(ret.chunks) = ret.top_k
        /\ \A i \in 1..Len(ret.chunks) :
                \E c \in collection :
                    /\ c.chunk_id = ret.chunks[i].chunk_id
                    /\ c.text = ret.chunks[i].text
                    /\ c.metadata = ret.chunks[i].metadata
        /\ (OnlySeededBrief /\ ret.top_k = 1) =>
                /\ Len(ret.chunks) = 1
                /\ ret.chunks[1].metadata.doc_id = "case_study_brief"
                /\ ret.chunks[1].metadata.kind = "case_study_brief"

\* the brief seeded in two chunks, and a query with top_k = 1 has returned one
C40_Witness ==
    /\ ret.kind = "chunks"
    /\ ret.top_k = 1
    /\ OnlySeededBrief
    /\ Cardinality(collection) = 2
    /\ Len(ret.chunks) = 1

====
